---- MODULE Spec2Model ----
(***************************************************************************)
(* State-machine model of the orbit image-generation bot: the in-memory    *)
(* session store (session_store/), the photo / album / delete / text       *)
(* handlers (handlers/media.py, handlers/text.py), the cooldown gate       *)
(* (services/cooldown.py, handlers/media.py) and the generation            *)
(* orchestrator (services/generation.py) with the ledger of database.py.   *)
(*                                                                         *)
(* Python objects that are shared by reference (session dicts, the lists   *)
(* stored in them, the media_groups dict, asyncio locks) live in small     *)
(* heaps indexed by object ids, so that a handler which captured a list    *)
(* before an await and the session which was given a fresh list in the     *)
(* meantime are told apart. Each handler is split at its await points.     *)
(***************************************************************************)
EXTENDS Integers, Sequences, FiniteSets, TLC

\* ------------------------------------------------------------------ bounds
MaxTime == 4          \* the clock stops advancing here
MaxTasks == 3         \* handler tasks alive at the same time
MaxMsgs == 5          \* status-indicator messages sent in one run
MaxGens == 4          \* generation tasks created in one run
MaxBalance == 4       \* largest ORB balance an account is credited up to
MaxSess == 2          \* session dicts alive at the same time
MaxLists == 9         \* list objects alive at the same time
MaxDicts == 3         \* media_groups dicts alive at the same time
MaxLocks == 2         \* asyncio.Lock objects alive at the same time
TicksPerSecond == 2   \* clock resolution

\* ------------------------------------------------------- program constants
COOLDOWN_SECONDS == 1
DEFAULT_COOLDOWN_SECONDS == 1
ALBUM_COLLECT_DELAY == 1
MAX_IMAGES_FLASH == 4
MAX_IMAGES_PRO == 14
DEFAULT_IMAGES_PER_PROMPT == 1
DEFAULT_MODEL == "flash"
DEFAULT_ASPECT_RATIO == "1:1"
DEFAULT_RESOLUTION == "1K"
GEMINI_HTTP_MAX_RETRIES == 3
GEMINI_HTTP_BACKOFF_BASE == 1

Chats == {1, 2}
ADMIN_IDS == {2}
Models == {"flash", "pro"}
Groups == {"G"}
ADMIN_PERIOD_LIMITS == [flash |-> 330, pro |-> 41]

SessIds == 1..MaxSess
ListIds == 1..MaxLists
DictIds == 1..MaxDicts
LockIds == 1..MaxLocks
TaskIds == 1..MaxTasks

VARIABLES
  now,             \* time.time(), in ticks
  SESSIONS,        \* session_store.settings.SESSIONS: chat -> session id, 0 = absent
  sessions,        \* heap of session dicts
  lists,           \* heap of list objects (photos, photo_message_ids, photo_status_message_ids)
  dicts,           \* heap of media_groups dicts
  locks,           \* heap of asyncio.Lock objects
  tasks,           \* handler coroutines in flight
  chatMsgs,        \* status-indicator messages that exist in each chat
  msgText,         \* the text each status-indicator message shows
  nextMid,         \* next Telegram message id for a bot message
  notices,         \* user-visible notices sent so far
  events,          \* counters of the inbound events received so far
  user_settings,   \* table user_settings of database.py
  extra_balance,   \* users.extra_balance of database.py
  model_usage,     \* table model_usage
  generation_log,  \* table generation_log (rows per user and model)
  gens             \* generate_and_send tasks, in creation order

sessVars == <<SESSIONS, sessions, lists, dicts, locks, tasks>>
chatVars == <<chatMsgs, msgText, nextMid, notices>>
dbVars == <<user_settings, extra_balance, model_usage, generation_log>>
vars == <<now, SESSIONS, sessions, lists, dicts, locks, tasks, chatMsgs, msgText,
          nextMid, notices, events, user_settings, extra_balance, model_usage,
          generation_log, gens>>

\* ----------------------------------------------------------------- helpers
Min(S) == CHOOSE x \in S : \A y \in S : x <= y
Max2(a, b) == IF a >= b THEN a ELSE b
Range(s) == {s[i] : i \in 1..Len(s)}
RemoveAt(s, i) == [j \in 1..(Len(s) - 1) |-> IF j < i THEN s[j] ELSE s[j + 1]]
Take(s, n) == [j \in 1..(IF n < Len(s) THEN n ELSE Len(s)) |-> s[j]]
IndexOf(s, x) == IF x \in Range(s) THEN Min({i \in 1..Len(s) : s[i] = x}) ELSE 0
CountOf(s, x) == Cardinality({i \in 1..Len(s) : s[i] = x})

NoPrompt == <<>>
NoSess == [photos |-> 0, photo_status_message_ids |-> 0, photo_message_ids |-> 0,
           media_groups |-> 0, model |-> "flash", aspect_ratio |-> "1:1",
           resolution |-> "1K", images_per_prompt |-> 0,
           last_generate_ts |-> -1, _remix_lock |-> 0]
NoLock == [locked |-> 0, waiters |-> <<>>]
\* A free task slot. arrival_status records for a text handler the indicator
\* ids of the conversation at the moment its prompt passed the gate.
\* Until its download is over, arrival_count and arrival_max
\* record for a photo handler the staged count and the model maximum at the
\* moment its message arrived.
NoTask == [kind |-> "none", pc |-> "none", chat_id |-> 0, sess |-> 0, photos |-> 0,
           photo_msg_ids |-> 0, media_groups |-> 0, status_ids |-> 0, lock |-> 0,
           image |-> 0, caption |-> <<>>, group |-> "", max_photos |-> 0, count |-> 0,
           i |-> 0, extra |-> <<>>, target |-> 0, ret |-> "none", wake |-> 0,
           snapshot |-> <<>>, prompt |-> <<>>, arrival_count |-> 0, arrival_max |-> 0,
           arrival_status |-> <<>>]
NoGroups == [g \in {} |-> 0]
\* What the bot told the user so far, and the times at which a cooldown gate
\* let a trigger through (with the module whose gate it was).
NoNotices == [max_photos |-> 0, cooldown |-> 0, remain |-> 0, download_failed |-> 0,
              desync |-> 0, count_alert |-> 0, gate_passes |-> <<>>]

\* --------------------------------------------------------------- the heaps
\* The current values of every shared object, handled as one record so that a
\* handler step can be written as a chain of Python statements.
Heap == [S |-> SESSIONS, ss |-> sessions, ls |-> lists, ds |-> dicts, lk |-> locks,
         tk |-> tasks, ok |-> TRUE]

LiveSess(H) == ({H.S[c] : c \in Chats} \cup {H.tk[t].sess : t \in TaskIds}) \ {0}
LiveLists(H) ==
  (UNION {{H.ss[s].photos, H.ss[s].photo_status_message_ids, H.ss[s].photo_message_ids}
            : s \in LiveSess(H)}
   \cup UNION {{H.tk[t].photos, H.tk[t].photo_msg_ids, H.tk[t].status_ids} : t \in TaskIds})
  \ {0}
LiveDicts(H) ==
  ({H.ss[s].media_groups : s \in LiveSess(H)} \cup {H.tk[t].media_groups : t \in TaskIds})
  \ {0}
LiveLocks(H) ==
  ({H.ss[s]._remix_lock : s \in LiveSess(H)} \cup {H.tk[t].lock : t \in TaskIds}) \ {0}

Fail(H) == [H EXCEPT !.ok = FALSE]

\* The i-th least of a set of object ids.
NthFree(free, i) == CHOOSE l \in free : Cardinality({x \in free : x < l}) = i - 1

\* Fresh empty lists stored in the named fields of session s, e.g.
\* sess["photos"] = []; sess["photo_message_ids"] = [].
NewLists(H, s, fields) ==
  LET free == ListIds \ LiveLists(H)
      n == Len(fields)
  IN
  IF ~H.ok \/ Cardinality(free) < n THEN Fail(H)
  ELSE [H EXCEPT
          !.ls = [l \in ListIds |->
                    IF \E i \in 1..n : l = NthFree(free, i) THEN <<>> ELSE @[l]],
          !.ss[s] = [f \in DOMAIN @ |->
                       IF IndexOf(fields, f) # 0 THEN NthFree(free, IndexOf(fields, f))
                       ELSE @[f]]]

NewList(H, s, field) == NewLists(H, s, <<field>>)

NewDict(H, s) ==
  LET free == DictIds \ LiveDicts(H) IN
  IF ~H.ok \/ free = {} THEN Fail(H)
  ELSE LET d == Min(free) IN [H EXCEPT !.ds[d] = NoGroups, !.ss[s].media_groups = d]

\* Unreferenced objects are returned to their blank value, and the heaps become
\* the next state.
Commit(H) ==
  /\ H.ok
  /\ SESSIONS' = H.S
  /\ sessions' = [s \in SessIds |-> IF s \in LiveSess(H) THEN H.ss[s] ELSE NoSess]
  /\ lists' = [l \in ListIds |-> IF l \in LiveLists(H) THEN H.ls[l] ELSE <<>>]
  /\ dicts' = [d \in DictIds |-> IF d \in LiveDicts(H) THEN H.ds[d] ELSE NoGroups]
  /\ locks' = [k \in LockIds |-> IF k \in LiveLocks(H) THEN H.lk[k] ELSE NoLock]
  /\ tasks' = H.tk

\* ------------------------------------------------------------ session store
get_user_settings(c) ==
  [user_settings[c] EXCEPT !.images_per_prompt = IF @ = 0 THEN 1 ELSE @]

\* A new session made of _default_session() instead of the stored settings.
get_session_Defaults(H, c) ==
  IF H.S[c] # 0 THEN H
  ELSE
    LET free == SessIds \ LiveSess(H) IN
    IF ~H.ok \/ free = {} THEN Fail(H)
    ELSE
      LET s == Min(free)
          H0 == [H EXCEPT !.S[c] = s,
                          !.ss[s] = [NoSess EXCEPT !.model = DEFAULT_MODEL,
                                                   !.aspect_ratio = DEFAULT_ASPECT_RATIO,
                                                   !.resolution = DEFAULT_RESOLUTION,
                                                   !.images_per_prompt =
                                                      DEFAULT_IMAGES_PER_PROMPT]]
      IN NewDict(NewLists(H0, s, <<"photos", "photo_status_message_ids",
                                   "photo_message_ids">>), s)

get_session(H, c) ==
  IF H.S[c] # 0 THEN H
  ELSE
    LET free == SessIds \ LiveSess(H) IN
    IF ~H.ok \/ free = {} THEN Fail(H)
    ELSE
      LET s == Min(free)
          db == get_user_settings(c)
          H0 == [H EXCEPT !.S[c] = s,
                          !.ss[s] = [NoSess EXCEPT !.model = db.model,
                                                   !.aspect_ratio = db.aspect_ratio,
                                                   !.resolution = db.resolution,
                                                   !.images_per_prompt = db.images_per_prompt]]
      IN NewDict(NewLists(H0, s, <<"photos", "photo_status_message_ids",
                                   "photo_message_ids">>), s)

\* reset_session emptying the whole store: SESSIONS.clear()
reset_session_ClearsStore(H, c) == [H EXCEPT !.S = [x \in Chats |-> 0]]

\* session_store.settings.reset_session: SESSIONS.pop(chat_id, None)
reset_session(H, c) == [H EXCEPT !.S[c] = 0]

\* The session dict of chat c, once get_session has run.
Sess(H, c) == H.ss[H.S[c]]

ClampCount(v) == IF v < 1 THEN 1 ELSE IF v > 4 THEN 4 ELSE v

update_user_settings(c, field, value) ==
  user_settings' = [user_settings EXCEPT ![c][field] =
                      IF field = "images_per_prompt" THEN ClampCount(value) ELSE value]

set_model(c, model) ==
  LET H == get_session(Heap, c) IN
  /\ Commit([H EXCEPT !.ss[H.S[c]].model = model])
  /\ update_user_settings(c, "model", model)
  /\ UNCHANGED <<now, chatVars, events, extra_balance, model_usage, generation_log, gens>>

set_aspect_ratio(c, ratio) ==
  LET H == get_session(Heap, c) IN
  /\ Commit([H EXCEPT !.ss[H.S[c]].aspect_ratio = ratio])
  /\ update_user_settings(c, "aspect_ratio", ratio)
  /\ UNCHANGED <<now, chatVars, events, extra_balance, model_usage, generation_log, gens>>

set_resolution(c, value) ==
  LET H == get_session(Heap, c) IN
  /\ Commit([H EXCEPT !.ss[H.S[c]].resolution = value])
  /\ update_user_settings(c, "resolution", value)
  /\ UNCHANGED <<now, chatVars, events, extra_balance, model_usage, generation_log, gens>>

\* set_images_per_prompt without its two range checks: the session takes the
\* value as given, the storage layer clamps it.
set_images_per_prompt_Unclamped(c, value) ==
  LET H == get_session(Heap, c) IN
  /\ Commit([H EXCEPT !.ss[H.S[c]].images_per_prompt = value])
  /\ update_user_settings(c, "images_per_prompt", value)
  /\ UNCHANGED <<now, chatVars, events, extra_balance, model_usage, generation_log, gens>>

set_images_per_prompt(c, value) ==
  LET H == get_session(Heap, c) IN
  /\ Commit([H EXCEPT !.ss[H.S[c]].images_per_prompt = ClampCount(value)])
  /\ update_user_settings(c, "images_per_prompt", ClampCount(value))
  /\ UNCHANGED <<now, chatVars, events, extra_balance, model_usage, generation_log, gens>>


\* ----------------------------------------------------------- shared pieces
\* The heaps together with the chat and the generation tasks: what a handler
\* step can change.
World == [S |-> SESSIONS, ss |-> sessions, ls |-> lists, ds |-> dicts, lk |-> locks,
          tk |-> tasks, ok |-> TRUE, msgs |-> chatMsgs, text |-> msgText,
          mid |-> nextMid, notes |-> notices, gens |-> gens]

CommitWorld(W) ==
  /\ Commit(W)
  /\ chatMsgs' = W.msgs
  /\ msgText' = W.text
  /\ nextMid' = W.mid
  /\ notices' = W.notes
  /\ gens' = W.gens

FreeTasks(W) == {t \in TaskIds : W.tk[t].kind = "none"}
Alive(t) == tasks[t].kind # "none"

\* The coroutine returns (or an exception leaves it): its frame is gone.
End(W, t) == [W EXCEPT !.tk[t] = NoTask]

Notify(W, c, kind) == [W EXCEPT !.notes[c][kind] = @ + 1]

\* bot.delete_message: the message is gone when the call succeeds.
DeleteMessage(W, c, m, ok) == IF ok THEN [W EXCEPT !.msgs[c] = @ \ {m}] ELSE W

NewLock(W, s) ==
  LET free == LockIds \ LiveLocks(W) IN
  IF ~W.ok \/ free = {} THEN Fail(W)
  ELSE LET k == Min(free) IN [W EXCEPT !.lk[k] = NoLock, !.ss[s]._remix_lock = k]

\* No HTTP exchange of the gateway is under way. `call` is the number of the
\* gateway call of the generation the exchange belongs to, `responses` what
\* requests.post gave at each attempt, `slept` the time.sleep calls made.
NoHttp == [call |-> 0, max_retries |-> 0, attempt |-> 0, backoff |-> 0,
           responses |-> <<>>, slept |-> <<>>, result |-> "none"]

\* A generate_and_send coroutine that has not started to run. media_group_id
\* records the album whose resolution created it ("" for any other caller).
NewGen(c, prompt, photos) ==
  [chat_id |-> c, prompt |-> prompt, photos |-> photos, pc |-> "created",
   media_group_id |-> "", http |-> NoHttp,
   model |-> "flash", images_per_prompt |-> 0, cost_units |-> 0, is_admin |-> FALSE,
   source |-> "none", idx |-> 0, success_count |-> 0, status_msg |-> "none",
   notes |-> <<>>, calls |-> <<>>, delivered |-> 0, documents |-> 0, debited |-> 0,
   faults |-> FALSE, err |-> "none"]

\* asyncio.create_task(generate_and_send(bot, chat_id, prompt, photos)) in a step.
Dispatch(W, c, prompt, photos) ==
  IF Len(W.gens) >= MaxGens THEN Fail(W)
  ELSE [W EXCEPT !.gens = Append(@, NewGen(c, prompt, photos))]

\* ------------------------------------------------------------ cooldown gate
\* int(cooldown - (now - last_ts)), floored at 1.
\* The remaining wait without the floor of one second.
RemainSeconds_NoFloor(cooldown, elapsed) ==
  (cooldown * TicksPerSecond - elapsed) \div TicksPerSecond

RemainSeconds(cooldown, elapsed) ==
  LET remain == (cooldown * TicksPerSecond - elapsed) \div TicksPerSecond
  IN IF remain < 1 THEN 1 ELSE remain

\* The gate without the `return False` after its wait notice.
ensure_cooldown_and_mark_GoesOn(W, c, s, time, cooldown) ==
  LET last_ts == W.ss[s].last_generate_ts
      W1 == IF last_ts # -1 /\ time - last_ts < cooldown * TicksPerSecond
              THEN [Notify(W, c, "cooldown") EXCEPT
                      !.notes[c].remain = RemainSeconds(cooldown, time - last_ts)]
              ELSE W
  IN [pass |-> TRUE,
      W |-> [W1 EXCEPT !.ss[s].last_generate_ts = time,
                       !.notes[c].gate_passes = Append(@, <<time, "services">>)]]

\* services.cooldown.ensure_cooldown_and_mark (used by the text handler).
ensure_cooldown_and_mark(W, c, s, time, cooldown) ==
  LET last_ts == W.ss[s].last_generate_ts IN
  IF last_ts # -1 /\ time - last_ts < cooldown * TicksPerSecond
    THEN [pass |-> FALSE,
          W |-> [Notify(W, c, "cooldown") EXCEPT
                   !.notes[c].remain = RemainSeconds(cooldown, time - last_ts)]]
    ELSE [pass |-> TRUE,
          W |-> [W EXCEPT !.ss[s].last_generate_ts = time,
                          !.notes[c].gate_passes = Append(@, <<time, "services">>)]]

\* The media gate keeping a timestamp of its own instead of last_generate_ts.
media_ensure_cooldown_and_mark_OwnStamp(W, c, s, time) ==
  LET mine == {e[1] : e \in {x \in Range(W.notes[c].gate_passes) : x[2] = "media"}} IN
  IF \E last_ts \in mine : time - last_ts < COOLDOWN_SECONDS * TicksPerSecond
    THEN [pass |-> FALSE,
          W |-> [Notify(W, c, "cooldown") EXCEPT !.notes[c].remain = 1]]
    ELSE [pass |-> TRUE,
          W |-> [W EXCEPT !.notes[c].gate_passes = Append(@, <<time, "media">>)]]

\* handlers.media._ensure_cooldown_and_mark (captioned photo, album resolution).
media_ensure_cooldown_and_mark(W, c, s, time) ==
  LET last_ts == W.ss[s].last_generate_ts IN
  IF last_ts # -1 /\ time - last_ts < COOLDOWN_SECONDS * TicksPerSecond
    THEN [pass |-> FALSE,
          W |-> [Notify(W, c, "cooldown") EXCEPT
                   !.notes[c].remain = RemainSeconds(COOLDOWN_SECONDS, time - last_ts)]]
    ELSE [pass |-> TRUE,
          W |-> [W EXCEPT !.ss[s].last_generate_ts = time,
                          !.notes[c].gate_passes = Append(@, <<time, "media">>)]]

\* ------------------------------------------------------------ remix manager
max_photos_for_session(sess) == IF sess.model = "pro" THEN MAX_IMAGES_PRO ELSE MAX_IMAGES_FLASH

short_status_text(index) == <<"short", index>>
full_status_text(count, remaining) == <<"full", count, remaining>>

\* The `async with lock` block is left (normally or by an exception) and the
\* handler that called _update_remix_statuses returns.
ReleaseAndReturn(W, t) ==
  LET k == W.tk[t].lock IN End([W EXCEPT !.lk[k].locked = 0], t)

\* Step 3 of the recompute: for i, mid in enumerate(status_ids): edit the text.
EditLoop(W, t) ==
  LET sl == W.ls[W.tk[t].status_ids] IN
  IF Len(sl) = 0 THEN ReleaseAndReturn(W, t)
  ELSE [W EXCEPT !.tk[t].pc = "upd_edit", !.tk[t].i = 1, !.tk[t].target = sl[1]]

\* Step 2 of the recompute: while len(status_ids) < count: send a new indicator.
WhileLoop(W, t) ==
  IF Len(W.ls[W.tk[t].status_ids]) < W.tk[t].count
    THEN [W EXCEPT !.tk[t].pc = "upd_send"]
    ELSE EditLoop(W, t)

\* count == 0: after the indicators are deleted, sess[ids] = [] and return.
FinishZeroBranch(W, t) ==
  LET W1 == [W EXCEPT !.tk[t].status_ids = 0] IN
  ReleaseAndReturn(NewList(W1, W.tk[t].sess, "photo_status_message_ids"), t)

\* The body of `async with lock` up to its first await.
StartRecompute(W, t) ==
  LET s == W.tk[t].sess
      sess == W.ss[s]
      sl == W.ls[sess.photo_status_message_ids]
      count == Len(W.ls[sess.photos])
      W1 == [W EXCEPT !.tk[t].status_ids = sess.photo_status_message_ids,
                      !.tk[t].count = count,
                      !.tk[t].max_photos = max_photos_for_session(sess)]
  IN
  IF count = 0 THEN
    IF Len(sl) = 0 THEN FinishZeroBranch(W1, t)
    ELSE [W1 EXCEPT !.tk[t].pc = "upd_clear", !.tk[t].i = 1, !.tk[t].target = sl[1]]
  ELSE IF Len(sl) > count THEN
    [W1 EXCEPT !.tk[t].pc = "upd_extra", !.tk[t].extra = SubSeq(sl, count + 1, Len(sl))]
  ELSE WhileLoop(W1, t)

\* _update_remix_statuses is called: the lock is taken from the session (made
\* when missing) and acquired, or the task queues up behind its holder.
EnterUpdate(W, t) ==
  LET s == W.tk[t].sess
      W0 == [W EXCEPT !.tk[t].photos = 0, !.tk[t].photo_msg_ids = 0,
                      !.tk[t].media_groups = 0, !.tk[t].arrival_count = 0,
                      !.tk[t].arrival_max = 0]
      W1 == IF W0.ss[s]._remix_lock = 0 THEN NewLock(W0, s) ELSE W0
      k == W1.ss[s]._remix_lock
  IN
  IF ~W1.ok THEN W1
  ELSE IF W1.lk[k].locked = 0 /\ W1.lk[k].waiters = <<>>
    THEN StartRecompute([W1 EXCEPT !.lk[k].locked = t, !.tk[t].lock = k], t)
    ELSE [W1 EXCEPT !.lk[k].waiters = Append(@, t), !.tk[t].lock = k,
                    !.tk[t].pc = "upd_wait"]

\* A waiter at the head of the queue gets the released lock.
UpdAcquire(t) ==
  LET k == tasks[t].lock IN
  /\ tasks[t].pc = "upd_wait"
  /\ locks[k].locked = 0
  /\ Head(locks[k].waiters) = t
  /\ CommitWorld(StartRecompute([World EXCEPT !.lk[k].locked = t,
                                              !.lk[k].waiters = Tail(@)], t))
  /\ UNCHANGED <<now, events, dbVars>>

\* count == 0: one `await bot.delete_message` of the loop over status_ids returns.
UpdClearStep(t, ok) ==
  LET r == tasks[t]
      W1 == DeleteMessage(World, r.chat_id, r.target, ok)
      sl == lists[r.status_ids]
  IN
  /\ r.pc = "upd_clear"
  /\ CommitWorld(IF r.i < Len(sl)
                   THEN [W1 EXCEPT !.tk[t].i = r.i + 1, !.tk[t].target = sl[r.i + 1]]
                   ELSE FinishZeroBranch(W1, t))
  /\ UNCHANGED <<now, events, dbVars>>

\* Step 1: one `await bot.delete_message` of the loop over extra_ids returns;
\* after the last one status_ids = status_ids[:count] is stored in the session.
UpdExtraStep(t, ok) ==
  LET r == tasks[t]
      W1 == DeleteMessage(World, r.chat_id, Head(r.extra), ok)
      kept == Take(lists[r.status_ids], r.count)
      W2 == NewList([W1 EXCEPT !.tk[t].status_ids = 0, !.tk[t].extra = <<>>],
                    r.sess, "photo_status_message_ids")
      l == W2.ss[r.sess].photo_status_message_ids
  IN
  /\ r.pc = "upd_extra"
  /\ CommitWorld(IF Len(r.extra) > 1
                   THEN [W1 EXCEPT !.tk[t].extra = Tail(@)]
                   ELSE IF ~W2.ok THEN W2
                   ELSE WhileLoop([W2 EXCEPT !.ls[l] = kept, !.tk[t].status_ids = l], t))
  /\ UNCHANGED <<now, events, dbVars>>

\* Step 2: `await bot.send_message(full status)` returns the new indicator, which
\* is appended to status_ids and stored; a failed send leaves the function.
\* A failed send leaving the coroutine without leaving `async with lock`.
UpdSendStep_KeepsLock(t, ok) ==
  LET r == tasks[t]
      m == nextMid
      W1 == [World EXCEPT
               !.mid = m + 1,
               !.msgs[r.chat_id] = @ \cup {m},
               !.text[m] = full_status_text(r.count, r.max_photos - r.count),
               !.ls[r.status_ids] = Append(@, m),
               !.ss[r.sess].photo_status_message_ids = r.status_ids]
  IN
  /\ r.pc = "upd_send"
  /\ IF ok THEN m <= MaxMsgs /\ CommitWorld(WhileLoop(W1, t))
     ELSE CommitWorld(End(World, t))
  /\ UNCHANGED <<now, events, dbVars>>

UpdSendStep(t, ok) ==
  LET r == tasks[t]
      m == nextMid
      W1 == [World EXCEPT
               !.mid = m + 1,
               !.msgs[r.chat_id] = @ \cup {m},
               !.text[m] = full_status_text(r.count, r.max_photos - r.count),
               !.ls[r.status_ids] = Append(@, m),
               !.ss[r.sess].photo_status_message_ids = r.status_ids]
  IN
  /\ r.pc = "upd_send"
  /\ IF ok THEN m <= MaxMsgs /\ CommitWorld(WhileLoop(W1, t))
     ELSE CommitWorld(ReleaseAndReturn(World, t))
  /\ UNCHANGED <<now, events, dbVars>>

\* Step 3: `await bot.edit_message_text` of indicator number i returns; a failure
\* (the message is gone, or the call fails) is ignored.
UpdEditStep(t, ok) ==
  LET r == tasks[t]
      text == IF r.i - 1 < r.count - 1 THEN short_status_text(r.i)
              ELSE full_status_text(r.count, r.max_photos - r.count)
      W1 == IF ok /\ r.target \in chatMsgs[r.chat_id]
              THEN [World EXCEPT !.text[r.target] = text] ELSE World
      sl == lists[r.status_ids]
  IN
  /\ r.pc = "upd_edit"
  /\ CommitWorld(IF r.i < Len(sl)
                   THEN [W1 EXCEPT !.tk[t].i = r.i + 1, !.tk[t].target = sl[r.i + 1]]
                   ELSE ReleaseAndReturn(W1, t))
  /\ UNCHANGED <<now, events, dbVars>>

\* clear_photos leaving the media_groups dict of the session as it is.
clear_photos_KeepAlbums(W, c) ==
  LET W0 == get_session(W, c)
      s == W0.S[c]
  IN NewLists(W0, s, <<"photos", "photo_status_message_ids", "photo_message_ids">>)

\* session_store.photo_session.clear_photos
clear_photos(W, c) ==
  LET W0 == get_session(W, c)
      s == W0.S[c]
  IN NewDict(NewLists(W0, s, <<"photos", "photo_status_message_ids",
                                "photo_message_ids">>), s)

\* The end of _clear_remix_completely (clear_photos, the lock carried over) and
\* what its caller does next: return, or start the generation.
FinishClear(W, t) ==
  LET r == W.tk[t]
      c == r.chat_id
      W0 == [W EXCEPT !.tk[t].status_ids = 0, !.tk[t].photos = 0,
                      !.tk[t].photo_msg_ids = 0, !.tk[t].media_groups = 0]
      W1 == clear_photos(W0, c)
      old_lock == W1.ss[r.sess]._remix_lock
      W2 == IF W1.ok /\ old_lock # 0
              THEN [W1 EXCEPT !.ss[W1.S[c]]._remix_lock = old_lock] ELSE W1
  IN
  IF ~W2.ok THEN W2
  ELSE IF r.ret = "dispatch"
    THEN LET W3 == Dispatch(W2, c, r.prompt, r.snapshot) IN
         IF ~W3.ok THEN W3
         ELSE End([W3 EXCEPT !.gens[Len(W3.gens)].media_group_id = r.group], t)
  ELSE End(W2, t)

\* _clear_remix_completely is called: the loop over the session's status ids.
EnterClear(W, t, ret) ==
  LET r == W.tk[t]
      l == W.ss[r.sess].photo_status_message_ids
      sl == W.ls[l]
      W1 == [W EXCEPT !.tk[t].ret = ret]
  IN
  IF Len(sl) = 0 THEN FinishClear(W1, t)
  ELSE [W1 EXCEPT !.tk[t].pc = "clr", !.tk[t].status_ids = l, !.tk[t].i = 1,
                  !.tk[t].target = sl[1]]

\* One `await bot.delete_message` of _clear_remix_completely returns.
ClearStep(t, ok) ==
  LET r == tasks[t]
      W1 == DeleteMessage(World, r.chat_id, r.target, ok)
      sl == lists[r.status_ids]
  IN
  /\ r.pc = "clr"
  /\ CommitWorld(IF r.i < Len(sl)
                   THEN [W1 EXCEPT !.tk[t].i = r.i + 1, !.tk[t].target = sl[r.i + 1]]
                   ELSE FinishClear(W1, t))
  /\ UNCHANGED <<now, events, dbVars>>

\* ------------------------------------------------------------ handle_photo
\* A photo message arrives: handle_photo runs to `await photo_size.download`.
\* The photo gets the next number; its caption, when it has one, is <<"caption", p>>.
PhotoArrives(c, group, captioned) ==
  LET W0 == get_session(World, c)
      s == W0.S[c]
      sess == W0.ss[s]
      p == events.uploads + 1
      t == Min(FreeTasks(W0))
  IN
  /\ FreeTasks(World) # {}
  /\ W0.ok
  /\ CommitWorld([W0 EXCEPT !.tk[t] =
       [NoTask EXCEPT !.kind = "photo", !.pc = "download", !.chat_id = c, !.sess = s,
                      !.photos = sess.photos, !.photo_msg_ids = sess.photo_message_ids,
                      !.media_groups = sess.media_groups,
                      !.max_photos = max_photos_for_session(sess),
                      !.image = p, !.group = group,
                      !.arrival_count = Len(W0.ls[sess.photos]),
                      !.arrival_max = max_photos_for_session(sess),
                      !.caption = IF captioned THEN <<"caption", p>> ELSE NoPrompt]])
  /\ events' = [events EXCEPT !.uploads = p,
                               !.captioned = IF captioned THEN @ + 1 ELSE @]
  /\ UNCHANGED <<now, dbVars>>

\* Case 1 of handle_photo: a part of an album that has a prompt.
AlbumPart(W, t) ==
  LET r == W.tk[t]
      d == r.media_groups
      old == IF r.group \in DOMAIN W.ds[d] THEN W.ds[d][r.group]
             ELSE [photos |-> <<>>, prompt |-> NoPrompt, scheduled |-> FALSE]
      g1 == [old EXCEPT !.photos = Append(@, r.image),
                        !.prompt = IF r.caption # NoPrompt /\ old.prompt = NoPrompt
                                     THEN r.caption ELSE @]
      schedule == g1.prompt # NoPrompt /\ ~g1.scheduled
      g2 == [g1 EXCEPT !.scheduled = @ \/ schedule]
      W1 == End([W EXCEPT !.ds[d] = [x \in DOMAIN @ \cup {r.group} |->
                                       IF x = r.group THEN g2 ELSE @[x]],
                          !.ss[r.sess].media_groups = d], t)
      t2 == Min(FreeTasks(W1))
  IN
  IF ~schedule THEN W1
  ELSE [W1 EXCEPT !.tk[t2] =
         [NoTask EXCEPT !.kind = "album", !.pc = "sleep", !.chat_id = r.chat_id,
                        !.group = r.group,
                        !.wake = now + ALBUM_COLLECT_DELAY * TicksPerSecond]]

\* The test of case 1 taking every album part, captioned or not.
AlbumHasPrompt_AnyAlbum(W, t) == W.tk[t].group # ""

AlbumHasPrompt(W, t) ==
  LET r == W.tk[t]
      d == W.ds[r.media_groups]
  IN (r.group \in DOMAIN d /\ d[r.group].prompt # NoPrompt) \/ r.caption # NoPrompt

\* Case 2 starting the generation without the full clear of the Remix staging.
CaptionedSingle_KeepsRemix(W, t) ==
  LET r == W.tk[t]
      gate == media_ensure_cooldown_and_mark(W, r.chat_id, r.sess, now)
  IN
  IF ~gate.pass THEN End(gate.W, t)
  ELSE End(Dispatch(gate.W, r.chat_id, r.caption, <<r.image>>), t)

\* Case 2: a single photo with a caption starts a generation at once.
CaptionedSingle(W, t) ==
  LET r == W.tk[t]
      gate == media_ensure_cooldown_and_mark(W, r.chat_id, r.sess, now)
  IN
  IF ~gate.pass THEN End(gate.W, t)
  ELSE EnterClear([gate.W EXCEPT !.tk[t].prompt = r.caption,
                                 !.tk[t].snapshot = <<r.image>>], t, "dispatch")

\* Case 3 with the capacity check off by one: a photo is still taken at the limit.
StagePhoto_OffByOne(W, t) ==
  LET r == W.tk[t] IN
  IF Len(W.ls[r.photos]) > r.max_photos
    THEN End(Notify(W, r.chat_id, "max_photos"), t)
    ELSE EnterUpdate([W EXCEPT !.ls[r.photos] = Append(@, r.image),
                               !.ls[r.photo_msg_ids] = Append(@, r.image)], t)

\* Case 3: a photo without a prompt is staged for Remix, unless the staging is full.
StagePhoto(W, t) ==
  LET r == W.tk[t] IN
  IF Len(W.ls[r.photos]) >= r.max_photos
    THEN End(Notify(W, r.chat_id, "max_photos"), t)
    ELSE EnterUpdate([W EXCEPT !.ls[r.photos] = Append(@, r.image),
                               !.ls[r.photo_msg_ids] = Append(@, r.image)], t)

\* The download returns (or fails) and handle_photo runs to its next await.
PhotoDownloaded(t, ok) ==
  LET r == tasks[t] IN
  /\ r.kind = "photo" /\ r.pc = "download"
  /\ CommitWorld(
       IF ~ok THEN End(Notify(World, r.chat_id, "download_failed"), t)
       ELSE IF r.group # "" /\ AlbumHasPrompt(World, t) THEN AlbumPart(World, t)
       ELSE IF r.caption # NoPrompt /\ r.group = "" THEN CaptionedSingle(World, t)
       ELSE StagePhoto(World, t))
  /\ UNCHANGED <<now, events, dbVars>>

\* ----------------------------------------------------- _process_media_group
\* asyncio.sleep(ALBUM_COLLECT_DELAY) is over: the album is taken out of the
\* session and, with photos and a prompt, goes through the gate to generation.
AlbumWake(t) ==
  LET r == tasks[t]
      c == r.chat_id
      time == Max2(now, r.wake)
      W0 == get_session(World, c)
      s == W0.S[c]
      d == W0.ss[s].media_groups
      present == r.group \in DOMAIN W0.ds[d]
      group == W0.ds[d][r.group]
      W1 == [W0 EXCEPT !.ds[d] = [x \in DOMAIN @ \ {r.group} |-> @[x]],
                       !.tk[t].sess = s]
      max_photos == max_photos_for_session(W0.ss[s])
      gate == media_ensure_cooldown_and_mark(W1, c, s, time)
  IN
  /\ r.kind = "album" /\ r.pc = "sleep"
  /\ W0.ok
  /\ now' = time
  /\ CommitWorld(
       IF ~present THEN End(W1, t)
       ELSE IF group.photos = <<>> \/ group.prompt = NoPrompt THEN End(W1, t)
       ELSE IF ~gate.pass THEN End(gate.W, t)
       ELSE EnterClear([gate.W EXCEPT !.tk[t].prompt = group.prompt,
                                      !.tk[t].snapshot = Take(group.photos, max_photos)],
                       t, "dispatch"))
  /\ UNCHANGED <<events, dbVars>>

\* ------------------------------------------------------ handle_delete_photo
\* The delete button of indicator m is pressed: the handler runs to its first await.
DeletePressed(c, m) ==
  LET W0 == get_session(World, c)
      s == W0.S[c]
      sess == W0.ss[s]
      t == Min(FreeTasks(W0))
      idx == IndexOf(W0.ls[sess.photo_status_message_ids], m)
      W1 == [W0 EXCEPT !.tk[t] = [NoTask EXCEPT !.kind = "delete", !.chat_id = c,
                                                !.sess = s, !.target = m]]
  IN
  /\ m \in chatMsgs[c]
  /\ FreeTasks(World) # {}
  /\ W0.ok
  /\ CommitWorld(
       IF idx = 0 THEN [W1 EXCEPT !.tk[t].pc = "del_alert"]
       ELSE [W1 EXCEPT
               !.ls[sess.photos] = IF idx <= Len(@) THEN RemoveAt(@, idx) ELSE @,
               !.ls[sess.photo_message_ids] = IF idx <= Len(@) THEN RemoveAt(@, idx) ELSE @,
               !.ls[sess.photo_status_message_ids] = RemoveAt(@, idx),
               !.tk[t].pc = "del_wait", !.tk[t].photos = sess.photos])
  /\ events' = [events EXCEPT !.deletes = @ + 1]
  /\ UNCHANGED <<now, dbVars>>

\* The alert of the desynchronised case was answered: full clear.
DelAlertStep(t, ok) ==
  LET r == tasks[t] IN
  /\ r.pc = "del_alert"
  /\ CommitWorld(IF ok THEN EnterClear(Notify(World, r.chat_id, "desync"), t, "end")
                 ELSE End(World, t))
  /\ UNCHANGED <<now, events, dbVars>>

\* The indicator and the user's photo message were deleted and the callback was
\* answered: full clear when no photo is left, else the recompute.
DelContinue(t, del_ok, answer_ok) ==
  LET r == tasks[t]
      W1 == DeleteMessage(World, r.chat_id, r.target, del_ok)
  IN
  /\ r.pc = "del_wait"
  /\ CommitWorld(IF ~answer_ok THEN End(W1, t)
                 ELSE IF Len(W1.ls[r.photos]) = 0 THEN EnterClear(W1, t, "end")
                 ELSE EnterUpdate(W1, t))
  /\ UNCHANGED <<now, events, dbVars>>

\* ---------------------------------------------------- handle_text_or_prompt
\* The end of the text handler: the staging is emptied, the generation started.
TextFinish(W, t, s, c, prompt, snapshot) ==
  LET W0 == [W EXCEPT !.tk[t].status_ids = 0]
      W3 == NewLists(W0, s, <<"photo_status_message_ids", "photos",
                               "photo_message_ids">>)
  IN IF ~W3.ok THEN W3 ELSE End(Dispatch(W3, c, prompt, snapshot), t)

\* A text prompt arrives: the gate, the snapshot of the staged photos, and the
\* first `await bot.delete_message` of the loop over the indicators.
TextArrives(c) ==
  LET W0 == get_session(World, c)
      s == W0.S[c]
      sess == W0.ss[s]
      t == Min(FreeTasks(W0))
      n == events.texts + 1
      gate == ensure_cooldown_and_mark(W0, c, s, now, DEFAULT_COOLDOWN_SECONDS)
      snapshot == W0.ls[sess.photos]
      l == sess.photo_status_message_ids
      sl == W0.ls[l]
      W1 == [gate.W EXCEPT !.tk[t] =
               [NoTask EXCEPT !.kind = "text", !.pc = "txt_del", !.chat_id = c,
                              !.sess = s, !.prompt = <<"text", n>>,
                              !.snapshot = snapshot, !.status_ids = l, !.i = 1,
                              !.arrival_status = sl,
                              !.target = IF Len(sl) = 0 THEN 0 ELSE sl[1]]]
  IN
  /\ FreeTasks(World) # {}
  /\ W0.ok
  /\ CommitWorld(IF ~gate.pass THEN gate.W
                 ELSE IF Len(sl) = 0 THEN TextFinish(W1, t, s, c, <<"text", n>>, snapshot)
                 ELSE W1)
  /\ events' = [events EXCEPT !.texts = n]
  /\ UNCHANGED <<now, dbVars>>

\* One `await bot.delete_message` of the text handler's loop returns.
TextDeleteStep(t, ok) ==
  LET r == tasks[t]
      W1 == DeleteMessage(World, r.chat_id, r.target, ok)
      sl == lists[r.status_ids]
  IN
  /\ r.pc = "txt_del"
  /\ CommitWorld(IF r.i < Len(sl)
                   THEN [W1 EXCEPT !.tk[t].i = r.i + 1, !.tk[t].target = sl[r.i + 1]]
                   ELSE TextFinish(W1, t, r.sess, r.chat_id, r.prompt, r.snapshot))
  /\ UNCHANGED <<now, events, dbVars>>

\* ------------------------------------------------------ cb_set_images_count
\* The callback "set_count_<value>" of the settings menu: a value outside 1..4
\* is answered with an alert and nothing is stored.
cb_set_images_count(c, value) ==
  IF value < 1 \/ value > 4
    THEN /\ notices' = [notices EXCEPT ![c].count_alert = @ + 1]
         /\ UNCHANGED <<now, sessVars, chatMsgs, msgText, nextMid, events, dbVars, gens>>
    ELSE set_images_per_prompt(c, value)

\* ---------------------------------------------------------------- cmd_reset
\* /reset dropping the generation tasks of the process along with the session.
cmd_reset_CancelsGenerations(c) ==
  /\ CommitWorld([reset_session(World, c) EXCEPT !.gens = <<>>])
  /\ events' = [events EXCEPT !.resets = @ + 1]
  /\ UNCHANGED <<now, dbVars>>

\* /reset: the session is dropped from SESSIONS and the notice is answered.
cmd_reset(c) ==
  /\ CommitWorld(reset_session(World, c))
  /\ events' = [events EXCEPT !.resets = @ + 1]
  /\ UNCHANGED <<now, dbVars>>

\* -------------------------------------------------------------------- time
Tick ==
  /\ now < MaxTime
  /\ now' = now + 1
  /\ UNCHANGED <<sessVars, chatVars, events, dbVars, gens>>

\* ------------------------------------------------------------------ ledger
\* The balance check asking for one ORB whatever the request costs.
can_generate_AnyBalance(c, cost) ==
  IF extra_balance[c] >= 1 THEN [allowed |-> TRUE, source |-> "extra"]
  ELSE [allowed |-> FALSE, source |-> "none"]

\* database.can_generate: (allowed, source) for a request of `cost` ORB.
can_generate(c, cost) ==
  LET need == IF cost <= 0 THEN 1 ELSE cost IN
  IF extra_balance[c] >= need THEN [allowed |-> TRUE, source |-> "extra"]
  ELSE [allowed |-> FALSE, source |-> "none"]

\* database.register_generation: the balance after the debit.
register_generation(balance, source, amount) ==
  LET amt == IF amount <= 0 THEN 1 ELSE amount IN
  IF source = "extra" THEN Max2(0, balance - amt) ELSE balance

\* database.add_extra_generations, called by the payment handlers.
add_extra_generations(c, amount) ==
  /\ amount > 0
  /\ extra_balance[c] + amount <= MaxBalance
  /\ extra_balance' = [extra_balance EXCEPT ![c] = @ + amount]
  /\ UNCHANGED <<now, sessVars, chatVars, events, user_settings, model_usage, generation_log, gens>>

\* services.generation._check_admin_limit_db: what is left of the period limit.
AdminRemaining(c, model) == Max2(ADMIN_PERIOD_LIMITS[model] - generation_log[c][model], 0)

\* The admin check letting a request through while anything is left of the limit.
AdminAdmits_AnyLeft(c, model, n) == AdminRemaining(c, model) >= 1

\* generate_and_send, `if remaining < images_per_prompt`: the request of an
\* allow-listed account goes on only if the whole batch fits in what is left.
AdminAdmits(c, model, n) == AdminRemaining(c, model) >= n

\* -------------------------------------------------- generation orchestrator
GatewayOutcomes == {"image", "empty", "no_image", "api_error"}

\* asyncio.create_task(generate_and_send(bot, chat_id, prompt, photos))
create_task_generate(c, prompt, photos) ==
  /\ Len(gens) < MaxGens
  /\ gens' = Append(gens, NewGen(c, prompt, photos))

\* A caller starts generate_and_send directly with arguments of its choice.
CreateGenTask(c, prompt, photos) ==
  /\ create_task_generate(c, prompt, photos)
  /\ UNCHANGED <<now, sessVars, chatVars, events, dbVars>>

\* A prompt made of white space only, and a photo of zero bytes.
BlankPrompt == <<"blank">>
EmptyBytes == 0

\* (prompt or "").strip()
strip(prompt) == IF prompt = BlankPrompt THEN NoPrompt ELSE prompt

\* [p for p in (photos or []) if p]
NonEmptyPhotos(photos) == SelectSeq(photos, LAMBDA p : p # EmptyBytes)

\* The validation test made on the arguments as they were passed.
EmptyRequest_NoNormalisation(prompt, photos) == prompt = NoPrompt /\ photos = <<>>

\* generate_and_send, `if not prompt and not photos`, after the normalisation.
EmptyRequest(prompt, photos) ==
  strip(prompt) = NoPrompt /\ NonEmptyPhotos(photos) = <<>>

Note(r, kind) == [r EXCEPT !.notes = Append(@, kind)]
Fault(r) == [r EXCEPT !.faults = TRUE]

\* generate_and_send from its first line to `await bot.send_message(status_text)`.
GenStart(g, db_ok, send_ok) ==
  LET r == gens[g]
      c == r.chat_id
      H == get_session(Heap, c)
      sess == Sess(H, c)
      model == IF sess.model \in Models THEN sess.model ELSE "flash"
      n == ClampCount(IF sess.images_per_prompt = 0 THEN 1 ELSE sess.images_per_prompt)
      cost_units == IF model = "flash" THEN 1 ELSE 3
      total_cost_units == cost_units * n
      is_admin == c \in ADMIN_IDS
      r1 == [r EXCEPT !.model = model, !.images_per_prompt = n,
                      !.cost_units = cost_units, !.is_admin = is_admin]
      check == can_generate(c, total_cost_units)
      admitted == IF is_admin THEN AdminAdmits(c, model, n) ELSE check.allowed
      r2 == [r1 EXCEPT !.source = IF is_admin THEN "none" ELSE check.source]
  IN
  /\ g \in 1..Len(gens)
  /\ r.pc = "created"
  /\ Commit(H)
  /\ gens' = [gens EXCEPT ![g] =
       IF EmptyRequest(r.prompt, r.photos)
         THEN IF send_ok THEN [Note(r, "validation") EXCEPT !.pc = "done"]
              ELSE [Fault(r) EXCEPT !.pc = "crashed", !.err = "transport"]
       ELSE IF ~db_ok /\ is_admin
         THEN [Fault(r1) EXCEPT !.pc = "crashed", !.err = "storage"]
       ELSE IF ~db_ok
         THEN [Note(Fault(r1), "try_later") EXCEPT !.pc = "done", !.err = "storage"]
       ELSE IF ~admitted
         THEN [Note(r1, IF is_admin THEN "admin_limit" ELSE "insufficient")
                 EXCEPT !.pc = "done"]
       ELSE IF ~send_ok
         THEN [Fault(r2) EXCEPT !.pc = "crashed", !.err = "transport"]
       ELSE [Note(r2, "started") EXCEPT !.pc = "call", !.status_msg = "sent"]]
  /\ UNCHANGED <<now, chatVars, events, dbVars>>

\* The end of the loop without the `if success_count == 0` branch.
NextIteration_NoZeroCheck(r, balance, db_ok) ==
  LET r1 == [r EXCEPT !.idx = @ + 1] IN
  IF r1.idx < r1.images_per_prompt THEN [gen |-> [r1 EXCEPT !.pc = "call"], balance |-> balance]
  ELSE IF ~r1.is_admin /\ r1.source # "none"
    THEN IF db_ok
      THEN LET b == register_generation(balance, r1.source, r1.success_count * r1.cost_units)
           IN [gen |-> [r1 EXCEPT !.pc = "finally", !.debited = @ + (balance - b)],
               balance |-> b]
      ELSE [gen |-> [Fault(r1) EXCEPT !.pc = "finally"], balance |-> balance]
  ELSE [gen |-> [r1 EXCEPT !.pc = "finally"], balance |-> balance]

\* What follows the body of one loop iteration: the next iteration or, after the
\* last one, lines 343-356 (the "no images" notice, or the debit).
NextIteration(r, balance, db_ok) ==
  LET r1 == [r EXCEPT !.idx = @ + 1] IN
  IF r1.idx < r1.images_per_prompt THEN [gen |-> [r1 EXCEPT !.pc = "call"], balance |-> balance]
  ELSE IF r1.success_count = 0 THEN [gen |-> [r1 EXCEPT !.pc = "no_images"], balance |-> balance]
  ELSE IF ~r1.is_admin /\ r1.source # "none"
    THEN IF db_ok
      THEN LET b == register_generation(balance, r1.source, r1.success_count * r1.cost_units)
           IN [gen |-> [r1 EXCEPT !.pc = "finally", !.debited = @ + (balance - b)],
               balance |-> b]
      ELSE [gen |-> [Fault(r1) EXCEPT !.pc = "finally"], balance |-> balance]
  ELSE [gen |-> [r1 EXCEPT !.pc = "finally"], balance |-> balance]

\* One gateway call (call_gemini_flash / call_gemini_pro in a thread) returns.
GenCall(g, outcome, db_ok) ==
  LET r == gens[g]
      c == r.chat_id
      r1 == [r EXCEPT !.calls = Append(@, outcome)]
      nxt == NextIteration(r1, extra_balance[c], db_ok)
  IN
  /\ g \in 1..Len(gens)
  /\ r.pc = "call"
  /\ IF outcome = "image" THEN
       /\ gens' = [gens EXCEPT ![g] =
            [r1 EXCEPT !.success_count = @ + 1, !.pc = "send_photo",
                       !.faults = IF db_ok THEN @ ELSE TRUE]]
       /\ model_usage' = IF db_ok THEN [model_usage EXCEPT ![c][r.model] = @ + 1]
                         ELSE model_usage
       /\ generation_log' = IF db_ok THEN [generation_log EXCEPT ![c][r.model] = @ + 1]
                            ELSE generation_log
       /\ UNCHANGED extra_balance
     ELSE IF outcome = "empty" THEN
       /\ gens' = [gens EXCEPT ![g] = nxt.gen]
       /\ extra_balance' = [extra_balance EXCEPT ![c] = nxt.balance]
       /\ UNCHANGED <<model_usage, generation_log>>
     ELSE
       /\ gens' = [gens EXCEPT ![g] = [r1 EXCEPT !.pc = "except", !.err = outcome]]
       /\ UNCHANGED <<extra_balance, model_usage, generation_log>>
  /\ UNCHANGED <<now, sessVars, chatVars, events, user_settings>>

\* `await bot.send_photo(...)` returns or raises.
GenSendPhoto(g, send_ok) ==
  LET r == gens[g] IN
  /\ g \in 1..Len(gens)
  /\ r.pc = "send_photo"
  /\ gens' = [gens EXCEPT ![g] =
       IF send_ok THEN [r EXCEPT !.delivered = @ + 1, !.pc = "send_document"]
       ELSE [Fault(r) EXCEPT !.pc = "except", !.err = "transport"]]
  /\ UNCHANGED <<now, sessVars, chatVars, events, dbVars>>

\* `await bot.send_document(...)` returns or raises (the failure is logged only).
GenSendDocument(g, send_ok, db_ok) ==
  LET r == gens[g]
      c == r.chat_id
      r1 == IF send_ok THEN [r EXCEPT !.documents = @ + 1] ELSE Fault(r)
      nxt == NextIteration(r1, extra_balance[c], db_ok)
  IN
  /\ g \in 1..Len(gens)
  /\ r.pc = "send_document"
  /\ gens' = [gens EXCEPT ![g] = nxt.gen]
  /\ extra_balance' = [extra_balance EXCEPT ![c] = nxt.balance]
  /\ UNCHANGED <<now, sessVars, chatVars, events, user_settings, model_usage, generation_log>>

\* The "no images" notice with its `return` placed outside the try block.
GenNoImages_NoFinally(g, send_ok) ==
  LET r == gens[g] IN
  /\ g \in 1..Len(gens)
  /\ r.pc = "no_images"
  /\ gens' = [gens EXCEPT ![g] =
       IF send_ok THEN [Note(r, "no_images") EXCEPT !.pc = "done"]
       ELSE [Fault(r) EXCEPT !.pc = "except", !.err = "transport"]]
  /\ UNCHANGED <<now, sessVars, chatVars, events, dbVars>>

\* `await bot.send_message("Gemini returned no images")` and the return after it.
GenNoImages(g, send_ok) ==
  LET r == gens[g] IN
  /\ g \in 1..Len(gens)
  /\ r.pc = "no_images"
  /\ gens' = [gens EXCEPT ![g] =
       IF send_ok THEN [Note(r, "no_images") EXCEPT !.pc = "finally"]
       ELSE [Fault(r) EXCEPT !.pc = "except", !.err = "transport"]]
  /\ UNCHANGED <<now, sessVars, chatVars, events, dbVars>>

\* The except block: the classified error text is sent.
GenExcept(g, send_ok) ==
  LET r == gens[g] IN
  /\ g \in 1..Len(gens)
  /\ r.pc = "except"
  /\ gens' = [gens EXCEPT ![g] =
       IF send_ok THEN [Note(r, "error") EXCEPT !.pc = "finally"]
       ELSE [Fault(r) EXCEPT !.pc = "finally"]]
  /\ UNCHANGED <<now, sessVars, chatVars, events, dbVars>>

\* The finally block: the status notice is deleted, best effort.
GenFinally(g, send_ok) ==
  LET r == gens[g] IN
  /\ g \in 1..Len(gens)
  /\ r.pc = "finally"
  /\ gens' = [gens EXCEPT ![g] =
       IF send_ok THEN [r EXCEPT !.status_msg = "deleted", !.pc = "done"]
       ELSE [Fault(r) EXCEPT !.status_msg = "delete_failed", !.pc = "done"]]
  /\ UNCHANGED <<now, sessVars, chatVars, events, dbVars>>

\* A step of generation g after its "generation started" notice was sent.
GenRun(g) ==
  \/ \E outcome \in GatewayOutcomes, db_ok \in BOOLEAN : GenCall(g, outcome, db_ok)
  \/ \E send_ok \in BOOLEAN : GenSendPhoto(g, send_ok)
  \/ \E send_ok \in BOOLEAN, db_ok \in BOOLEAN : GenSendDocument(g, send_ok, db_ok)
  \/ \E send_ok \in BOOLEAN : GenNoImages(g, send_ok)
  \/ \E send_ok \in BOOLEAN : GenExcept(g, send_ok)
  \/ \E send_ok \in BOOLEAN : GenFinally(g, send_ok)

GenStep(g) ==
  \/ \E db_ok \in BOOLEAN, send_ok \in BOOLEAN : GenStart(g, db_ok, send_ok)
  \/ GenRun(g)

\* ------------------------------------------------------ gateway, HTTP level
\* What one requests.post can give: requests.Timeout, another
\* requests.RequestException, or a response with a status code.
HttpStatuses == {200, 302, 400, 429, 500, 503}
HttpResponses ==
  {[kind |-> "timeout", code |-> 0], [kind |-> "error", code |-> 0]}
  \cup {[kind |-> "status", code |-> n] : n \in HttpStatuses}

\* _post_with_retry is entered: backoff = GEMINI_HTTP_BACKOFF_BASE, and a
\* range(1, max_retries + 1) that is empty leads to the raise after the loop.
post_with_retry_begin(call, max_retries) ==
  [NoHttp EXCEPT !.call = call, !.max_retries = max_retries,
                 !.backoff = GEMINI_HTTP_BACKOFF_BASE,
                 !.result = IF max_retries < 1 THEN "raised" ELSE "posting"]

\* The loop body going round again after a 4xx response as well.
post_with_retry_attempt_Retry4xx(h, resp) ==
  LET attempt == h.attempt + 1
      h1 == [h EXCEPT !.attempt = attempt, !.responses = Append(@, resp)]
  IN
  IF resp.kind \in {"timeout", "error"} \/ (400 <= resp.code /\ resp.code < 600)
    THEN IF attempt = h.max_retries THEN [h1 EXCEPT !.result = "raised"]
         ELSE [h1 EXCEPT !.slept = Append(@, h.backoff), !.backoff = @ * 2]
    ELSE [h1 EXCEPT !.result = "returned"]

\* One turn of `for attempt in range(1, max_retries + 1)` of _post_with_retry.
post_with_retry_attempt(h, resp) ==
  LET attempt == h.attempt + 1
      h1 == [h EXCEPT !.attempt = attempt, !.responses = Append(@, resp)]
  IN
  IF resp.kind \in {"timeout", "error"} \/ (500 <= resp.code /\ resp.code < 600)
    THEN IF attempt = h.max_retries THEN [h1 EXCEPT !.result = "raised"]
         ELSE [h1 EXCEPT !.slept = Append(@, h.backoff), !.backoff = @ * 2]
    ELSE [h1 EXCEPT !.result = "returned"]

\* The gateway call of the current loop iteration of generation g has its
\* HTTP exchange under way (or over, and not yet handed back to the loop).
HttpOpen(g) == gens[g].pc = "call" /\ gens[g].http.call = Len(gens[g].calls) + 1

\* _call_gemini_image_api reaches _post_with_retry, whose max_retries is the
\* value of GEMINI_HTTP_MAX_RETRIES in the environment.
HttpStart(g, max_retries) ==
  /\ g \in 1..Len(gens)
  /\ gens[g].pc = "call" /\ ~HttpOpen(g)
  /\ gens' = [gens EXCEPT ![g].http =
                post_with_retry_begin(Len(gens[g].calls) + 1, max_retries)]
  /\ UNCHANGED <<now, sessVars, chatVars, events, dbVars>>

\* requests.post returns or raises.
HttpAttempt(g, resp) ==
  /\ g \in 1..Len(gens)
  /\ HttpOpen(g) /\ gens[g].http.result = "posting"
  /\ gens' = [gens EXCEPT ![g].http = post_with_retry_attempt(@, resp)]
  /\ UNCHANGED <<now, sessVars, chatVars, events, dbVars>>

\* What _call_gemini_image_api can give once _post_with_retry is over: its
\* GeminiAPIError, the one raised for a status of 400 and more, or what the
\* parsing of the body gives.
GatewayOutcomesOf(h) ==
  IF h.result = "raised" THEN {"api_error"}
  ELSE IF h.responses[Len(h.responses)].code >= 400 THEN {"api_error"}
  ELSE GatewayOutcomes

\* The gateway call returns to the loop of generate_and_send.
HttpReturn(g, outcome, db_ok) ==
  /\ g \in 1..Len(gens)
  /\ HttpOpen(g) /\ gens[g].http.result \in {"raised", "returned"}
  /\ outcome \in GatewayOutcomesOf(gens[g].http)
  /\ GenCall(g, outcome, db_ok)

\* ------------------------------------------------------------------- Init
\* Nothing has happened yet in the process: no session, no task, no message.
Started ==
  /\ now = 0
  /\ SESSIONS = [c \in Chats |-> 0]
  /\ sessions = [s \in SessIds |-> NoSess]
  /\ lists = [l \in ListIds |-> <<>>]
  /\ dicts = [d \in DictIds |-> NoGroups]
  /\ locks = [k \in LockIds |-> NoLock]
  /\ tasks = [t \in TaskIds |-> NoTask]
  /\ chatMsgs = [c \in Chats |-> {}]
  /\ msgText = [m \in 1..MaxMsgs |-> <<>>]
  /\ nextMid = 1
  /\ notices = [c \in Chats |-> NoNotices]
  /\ events = [uploads |-> 0, captioned |-> 0, texts |-> 0, deletes |-> 0, resets |-> 0]
  /\ user_settings = [c \in Chats |-> [model |-> DEFAULT_MODEL,
                                       aspect_ratio |-> DEFAULT_ASPECT_RATIO,
                                       resolution |-> DEFAULT_RESOLUTION,
                                       images_per_prompt |-> DEFAULT_IMAGES_PER_PROMPT]]
  /\ extra_balance = [c \in Chats |-> 0]
  /\ model_usage = [c \in Chats |-> [m \in Models |-> 0]]
  /\ gens = <<>>

\* The process starts on an empty journal.
Init ==
  /\ Started
  /\ generation_log = [c \in Chats |-> [m \in Models |-> 0]]

\* ------------------------------------------- the generation orchestrator alone
GenChats == {1}
GenPrompts == {NoPrompt, <<"text", 1>>}

NextGen ==
  \/ \E c \in GenChats, m \in Models : set_model(c, m)
  \/ \E c \in GenChats, v \in 0..5 : set_images_per_prompt(c, v)
  \/ \E c \in GenChats, a \in 1..MaxBalance : add_extra_generations(c, a)
  \/ \E c \in GenChats, p \in GenPrompts : gens = <<>> /\ CreateGenTask(c, p, <<>>)
  \/ \E g \in 1..MaxGens : GenStep(g)

SpecGen == Init /\ [][NextGen]_vars

\* ------------------------------------------------------------------ claims
\* A generation was admitted (the "generation started" notice was requested and sent).
Admitted(r) == r.status_msg # "none"
ImagesProduced(r) == CountOf(r.calls, "image")

\* C1: for a standard account, when generate_and_send has finished a request of
\* N images in which k > 0 of the N gateway calls produced an image and the
\* others failed, the ledger was debited exactly k x per-image cost and exactly
\* k results were delivered (transport and storage working throughout).
C1_DebitMatchesDelivered ==
  \A g \in 1..Len(gens) :
    LET r == gens[g] IN
    (/\ r.pc = "done" /\ Admitted(r) /\ ~r.is_admin /\ ~r.faults
     /\ Len(r.calls) = r.images_per_prompt
     /\ ImagesProduced(r) > 0)
    => (/\ r.debited = ImagesProduced(r) * r.cost_units
        /\ r.delivered = ImagesProduced(r))

\* C2: a gateway call that fails with "no image produced" does not abort the
\* batch: when the only gateway failures of a finished request are of that kind,
\* all N iterations have been invoked and every image produced was delivered.
C2_NoImageDoesNotAbort ==
  \A g \in 1..Len(gens) :
    LET r == gens[g] IN
    (/\ r.pc = "done" /\ Admitted(r) /\ ~r.faults
     /\ "no_image" \in Range(r.calls)
     /\ "api_error" \notin Range(r.calls))
    => (/\ Len(r.calls) = r.images_per_prompt
        /\ r.delivered = ImagesProduced(r))

\* --------------------------------------------- quiescence and session views
Quiescent(c) == \A t \in TaskIds : tasks[t].chat_id # c
staged(c) == lists[sessions[SESSIONS[c]].photos]
source_ids(c) == lists[sessions[SESSIONS[c]].photo_message_ids]
status_ids(c) == lists[sessions[SESSIONS[c]].photo_status_message_ids]
media_groups(c) == dicts[sessions[SESSIONS[c]].media_groups]

\* -------------------------- Remix staging: uncaptioned uploads and removals
RemixChat == 1
RemixUploads == 3
RemixDeletes == 2

\* The steps of the photo and delete handlers in flight, the transport working.
RemixStep(t) ==
  \/ PhotoDownloaded(t, TRUE)
  \/ UpdAcquire(t)
  \/ UpdClearStep(t, TRUE)
  \/ UpdExtraStep(t, TRUE)
  \/ UpdSendStep(t, TRUE)
  \/ UpdEditStep(t, TRUE)
  \/ ClearStep(t, TRUE)
  \/ DelAlertStep(t, TRUE)
  \/ DelContinue(t, TRUE, TRUE)

NextRemix ==
  \/ events.uploads < RemixUploads /\ PhotoArrives(RemixChat, "", FALSE)
  \/ \E m \in 1..MaxMsgs : events.deletes < RemixDeletes /\ DeletePressed(RemixChat, m)
  \/ \E t \in TaskIds : RemixStep(t)

SpecRemix == Init /\ [][NextRemix]_vars

\* C3: in every quiescent state of a conversation (no handler and no recompute
\* in flight) the number of status indicators equals the number of staged photos.
C3_IndicatorsMatchPhotos ==
  (SESSIONS[RemixChat] # 0 /\ Quiescent(RemixChat))
  => Len(status_ids(RemixChat)) = Len(staged(RemixChat))

\* The task that takes the step holds the session's _remix_lock before the step.
HoldsLock(c) ==
  \E t \in TaskIds :
    /\ tasks[t].chat_id = c /\ tasks[t].lock # 0
    /\ locks[tasks[t].lock].locked = t
    /\ tasks'[t] # tasks[t]

\* C5: every step that changes a conversation's staged photos, source ids,
\* status indicator ids or album buffers is taken by a task that holds the
\* session's _remix_lock.
C5_MutationsHoldLock ==
  [][\A c \in Chats :
       (/\ SESSIONS[c] # 0 /\ SESSIONS'[c] # 0
        /\ \/ staged(c)' # staged(c)
           \/ source_ids(c)' # source_ids(c)
           \/ status_ids(c)' # status_ids(c)
           \/ media_groups(c)' # media_groups(c))
       => HoldsLock(c)]_vars

\* ----------------------------- Capacity: uploads, removals and model switches
CapChat == 1
CapUploads == 5
CapDeletes == 1
CapTasks == 2

InFlight == {t \in TaskIds : Alive(t)}

CapStep(t) ==
  \/ PhotoDownloaded(t, TRUE)
  \/ UpdAcquire(t)
  \/ UpdExtraStep(t, TRUE)
  \/ UpdSendStep(t, TRUE)
  \/ UpdEditStep(t, TRUE)
  \/ DelContinue(t, TRUE, TRUE)

NextCap ==
  \/ /\ events.uploads < CapUploads
     /\ Cardinality(InFlight) < CapTasks
     /\ PhotoArrives(CapChat, "", FALSE)
  \/ \E model \in Models : set_model(CapChat, model)
  \/ \E m \in 1..MaxMsgs :
       /\ events.deletes < CapDeletes
       /\ Cardinality(InFlight) < CapTasks
       /\ SESSIONS[CapChat] # 0
       /\ m \in Range(status_ids(CapChat))
       /\ DeletePressed(CapChat, m)
  \/ \E t \in TaskIds : CapStep(t)

SpecCap == Init /\ [][NextCap]_vars

\* C6: in every reachable state the number of staged photos of a conversation
\* is at most the maximum of its currently selected model (4 flash, 14 pro).
C6_StagedWithinModelMax ==
  \A c \in Chats :
    SESSIONS[c] # 0 => Len(staged(c)) <= max_photos_for_session(sessions[SESSIONS[c]])

\* The photo handler t leaves its download await in this step.
LeavesDownload(t) ==
  tasks[t].kind = "photo" /\ tasks[t].pc = "download" /\ tasks'[t].pc # "download"

\* The upload handled by t is turned down: the notice is sent, the handler is
\* over, and the staging and its indicators are as before, without the photo.
Rejected(t, c) ==
  /\ notices'[c].max_photos = notices[c].max_photos + 1
  /\ tasks'[t] = NoTask
  /\ staged(c)' = staged(c)
  /\ source_ids(c)' = source_ids(c)
  /\ status_ids(c)' = status_ids(c)
  /\ chatMsgs' = chatMsgs /\ msgText' = msgText
  /\ tasks[t].image \notin Range(staged(c)') \cup Range(source_ids(c)')
  /\ media_groups(c)' = media_groups(c)
  /\ gens' = gens

\* C7 as stated: an uncaptioned upload that arrived when the staged count was at
\* the model maximum is rejected with the notice and leaves the staged photos,
\* source ids and status indicators unchanged.
C7_RejectedIfFullOnArrival ==
  [][\A t \in TaskIds, c \in Chats :
       (/\ LeavesDownload(t)
        /\ tasks[t].chat_id = c
        /\ tasks[t].caption = NoPrompt
        /\ tasks[t].arrival_count >= tasks[t].arrival_max)
       => Rejected(t, c)]_vars

\* C7 amended: when the capacity check of an uncaptioned upload, made after the
\* download on the staged list and the maximum read at arrival, finds the list
\* at the maximum, the upload is rejected with the notice and the staged
\* photos, source ids and status indicators stay as they are.
C7_RejectedAtCapacityCheck ==
  [][\A t \in TaskIds, c \in Chats :
       (/\ LeavesDownload(t)
        /\ tasks[t].chat_id = c
        /\ tasks[t].caption = NoPrompt
        /\ Len(lists[tasks[t].photos]) >= tasks[t].max_photos)
       => Rejected(t, c)]_vars

C7_Witness ==
  /\ notices[CapChat].max_photos > 0
  /\ SESSIONS[CapChat] # 0
  /\ Len(staged(CapChat)) = MAX_IMAGES_FLASH

\* ------------------------------------------- Albums that carry one caption
AlbumChat == 1
AlbumUploads == 3

AlbumStep(t) ==
  \/ PhotoDownloaded(t, TRUE)
  \/ UpdAcquire(t)
  \/ UpdSendStep(t, TRUE)
  \/ UpdEditStep(t, TRUE)
  \/ ClearStep(t, TRUE)
  \/ AlbumWake(t)

\* The parts of the album arrive one by one, each downloaded before the next
\* comes, and at most one of them has a caption.
NextAlbum ==
  \/ \E captioned \in BOOLEAN :
       /\ events.uploads < AlbumUploads
       /\ \A u \in TaskIds : tasks[u].pc # "download"
       /\ captioned => events.captioned = 0
       /\ PhotoArrives(AlbumChat, "G", captioned)
  \/ \E t \in TaskIds : AlbumStep(t)

SpecAlbum == Init /\ [][NextAlbum]_vars

\* _process_media_group of task t wakes up in this step.
Resolves(t) == tasks[t].kind = "album" /\ tasks[t].pc = "sleep" /\ tasks'[t].pc # "sleep"

\* What the resolution hands to generate_and_send: it is either dispatched in
\* the step, or held by the task while it clears the Remix staging.
Resolution(t) ==
  IF tasks'[t].pc = "clr"
    THEN <<[photos |-> tasks'[t].snapshot, prompt |-> tasks'[t].prompt]>>
    ELSE [g \in 1..(Len(gens') - Len(gens)) |->
            [photos |-> gens'[Len(gens) + g].photos, prompt |-> gens'[Len(gens) + g].prompt]]

\* C4: when the parts P1..Pn of an album have all been handled before the
\* album is resolved and exactly one of them, at any position, carries a
\* caption, the resolution starts exactly one generation, with every part in
\* delivery order and that caption as the prompt.
C4_AlbumGeneratesAllParts ==
  [][\A t \in TaskIds :
       (/\ Resolves(t)
        /\ events.captioned = 1
        /\ \A u \in TaskIds : tasks[u].kind # "photo")
       => /\ Len(Resolution(t)) = 1
          /\ Resolution(t)[1].photos = [i \in 1..events.uploads |-> i]
          /\ Resolution(t)[1].prompt[1] = "caption"]_vars

\* ---------------------------------------------- Albums without any caption
PlainChat == 1
PlainUploads == 5
PlainTasks == 2

PlainStep(t) ==
  \/ PhotoDownloaded(t, TRUE)
  \/ UpdAcquire(t)
  \/ UpdSendStep(t, TRUE)
  \/ UpdEditStep(t, TRUE)

NextPlain ==
  \/ \E group \in {""} \cup Groups :
       /\ events.uploads < PlainUploads
       /\ Cardinality(InFlight) < PlainTasks
       /\ PhotoArrives(PlainChat, group, FALSE)
  \/ \E t \in TaskIds : PlainStep(t)

SpecPlain == Init /\ [][NextPlain]_vars

\* The upload handled by t is staged: the photo and its source id are appended
\* and the handler goes on into the recompute of the indicators.
Staged(t, c) ==
  /\ staged(c)' = Append(staged(c), tasks[t].image)
  /\ source_ids(c)' = Append(source_ids(c), tasks[t].image)
  /\ tasks'[t].pc \in {"upd_wait", "upd_send", "upd_edit"}
  /\ notices' = notices
  /\ gens' = gens

\* No album is buffered, none waits to be resolved, no generation was started.
NoAlbumActivity ==
  /\ gens = <<>>
  /\ \A t \in TaskIds : tasks[t].kind # "album"
  /\ \A c \in Chats : SESSIONS[c] # 0 => media_groups(c) = NoGroups

\* C10: for an album none of whose parts has a caption nothing is buffered or
\* resolved and no generation is started; each part is staged (and gets its
\* indicator from the recompute) just as a single uncaptioned upload is, and is
\* rejected at the same capacity limit.
C10_CaptionlessAlbumIsStaged ==
  [][/\ NoAlbumActivity'
     /\ \A t \in TaskIds, c \in Chats :
          (LeavesDownload(t) /\ tasks[t].chat_id = c)
          => IF Len(lists[tasks[t].photos]) >= max_photos_for_session(sessions[SESSIONS[c]])
               THEN Rejected(t, c) ELSE Staged(t, c)]_vars

\* An album part was staged as the fourth photo and has its indicator, and an
\* upload that came after it was rejected.
C10_Witness ==
  \E t \in TaskIds :
    /\ tasks[t].group \in Groups
    /\ tasks[t].pc = "upd_edit"
    /\ staged(PlainChat) # <<>>
    /\ staged(PlainChat)[Len(staged(PlainChat))] = tasks[t].image
    /\ Len(staged(PlainChat)) = MAX_IMAGES_FLASH
    /\ Len(status_ids(PlainChat)) = MAX_IMAGES_FLASH
    /\ notices[PlainChat].max_photos >= 1

\* ------------------------------------------------- Triggers and the cooldown
CoolChat == 1
CoolTexts == 2
CoolUploads == 2

CoolStep(t) ==
  \/ PhotoDownloaded(t, TRUE)
  \/ AlbumWake(t)

NextCool ==
  \/ events.texts < CoolTexts /\ TextArrives(CoolChat)
  \/ \E group \in {""} \cup Groups :
       events.uploads < CoolUploads /\ PhotoArrives(CoolChat, group, TRUE)
  \/ Tick
  \/ \E t \in TaskIds : CoolStep(t)

SpecCool == Init /\ [][NextCool]_vars

LastTs(c) == IF SESSIONS[c] = 0 THEN -1 ELSE sessions[SESSIONS[c]].last_generate_ts
GatePassed(c) == Len(notices'[c].gate_passes) = Len(notices[c].gate_passes) + 1
GateRejected(c) == notices'[c].cooldown = notices[c].cooldown + 1
Cooldown == DEFAULT_COOLDOWN_SECONDS * TicksPerSecond

\* C8: with a cooldown of 1 s, an attempt less than 1 s after the last pass is
\* rejected, reports a remaining wait of at least 1 s and leaves
\* last_generate_ts as it was; an attempt 1 s or more after it, or the first
\* attempt of a conversation, passes and sets last_generate_ts to its time.
C8_CooldownGate ==
  [][\A c \in Chats :
       /\ GatePassed(c) => /\ LastTs(c) = -1 \/ now' - LastTs(c) >= Cooldown
                           /\ LastTs(c)' = now'
       /\ GateRejected(c) => /\ LastTs(c) # -1 /\ now' - LastTs(c) < Cooldown
                             /\ LastTs(c)' = LastTs(c)
                             /\ notices'[c].remain >= 1
       /\ LastTs(c)' # LastTs(c) => GatePassed(c)]_vars

C8_Witness ==
  /\ notices[CoolChat].cooldown > 0
  /\ notices[CoolChat].remain = 1
  /\ Len(notices[CoolChat].gate_passes) >= 2

\* C9: whatever the interleaving of text prompts, captioned photos and album
\* resolutions, any two passes of the gate of a conversation are at least the
\* cooldown apart, and last_generate_ts is the time of the latest pass
\* whichever of the two gate implementations let it through.
C9_PassesAreSpaced ==
  \A c \in Chats :
    LET passes == notices[c].gate_passes IN
    /\ \A i, j \in DOMAIN passes :
         i < j => passes[j][1] - passes[i][1] >= COOLDOWN_SECONDS * TicksPerSecond
    /\ passes # <<>> => LastTs(c) = passes[Len(passes)][1]

C9_Witness ==
  LET passes == notices[CoolChat].gate_passes IN
  /\ \E i \in DOMAIN passes : passes[i][2] = "services"
  /\ \E i \in DOMAIN passes : passes[i][2] = "media"
  /\ notices[CoolChat].cooldown > 0

\* ------------------------------------------ Bursts of captioned photo events
BurstChat == 1
BurstUploads == 3

BurstStep(t) ==
  \/ PhotoDownloaded(t, TRUE)
  \/ AlbumWake(t)

\* Captioned photos arrive, as parts of the album "G" or on their own, and
\* their downloads finish in any order.
NextBurst ==
  \/ \E group \in {""} \cup Groups :
       events.uploads < BurstUploads /\ PhotoArrives(BurstChat, group, TRUE)
  \/ \E t \in TaskIds : BurstStep(t)

SpecBurst == Init /\ [][NextBurst]_vars

AlbumTasks == {u \in TaskIds : tasks[u].kind = "album"}

\* C11: once the buffer of a group has its prompt, a later part of the group
\* with another caption leaves that prompt as it is and schedules no further
\* resolution.
C11_SecondCaptionIgnored ==
  [][\A t \in TaskIds, c \in Chats, g \in Groups :
       (/\ LeavesDownload(t)
        /\ tasks[t].chat_id = c /\ tasks[t].group = g
        /\ tasks[t].caption # NoPrompt
        /\ g \in DOMAIN media_groups(c)
        /\ media_groups(c)[g].prompt # NoPrompt)
       => /\ g \in DOMAIN media_groups(c)'
          /\ media_groups(c)'[g].prompt = media_groups(c)[g].prompt
          /\ Cardinality(AlbumTasks') = Cardinality(AlbumTasks)]_vars

\* C12: a buffer that is in the conversation's media_groups leaves it only in
\* the step in which the resolution task of its group wakes up; no other
\* operation removes a pending buffer.
C12_BufferRemovedByItsResolution ==
  [][\A c \in Chats, g \in Groups :
       (/\ SESSIONS[c] # 0
        /\ g \in DOMAIN media_groups(c)
        /\ SESSIONS'[c] = 0 \/ g \notin DOMAIN media_groups(c)')
       => \E t \in TaskIds :
            Resolves(t) /\ tasks[t].chat_id = c /\ tasks[t].group = g]_vars

\* The generations started by resolutions of album g of conversation c.
AlbumDispatches(c, g) ==
  {i \in 1..Len(gens) : gens[i].chat_id = c /\ gens[i].media_group_id = g}

\* C13: whatever the interleaving of the photo events that share a group id,
\* and also when a captioned part comes after the buffer was resolved, at most
\* one generation is dispatched for the group id.
C13_OneDispatchPerGroup ==
  \A c \in Chats, g \in Groups : Cardinality(AlbumDispatches(c, g)) <= 1

\* ------------------------------------- Generations of an allow-listed account
AdminChat == 2
MaxAdminLeft == 2     \* what is left of each period limit when the process starts
MaxAdminCount == 3    \* largest images-per-request value chosen by the account

\* The journal of the current period already holds rows of the allow-listed
\* account: `left` generations remain of each limit.
InitAdmin ==
  /\ Started
  /\ \E left \in 0..MaxAdminLeft :
       generation_log = [c \in Chats |-> [m \in Models |->
                           IF c \in ADMIN_IDS THEN ADMIN_PERIOD_LIMITS[m] - left ELSE 0]]

NextAdmin ==
  \/ \E m \in Models : set_model(AdminChat, m)
  \/ \E v \in 1..MaxAdminCount : set_images_per_prompt(AdminChat, v)
  \/ \E a \in 1..MaxBalance : add_extra_generations(AdminChat, a)
  \/ gens = <<>> /\ CreateGenTask(AdminChat, <<"text", 1>>, <<>>)
  \/ \E g \in 1..MaxGens : GenStep(g)

SpecAdmin == InitAdmin /\ [][NextAdmin]_vars

\* C14: a step of the generation of an allow-listed account never changes the
\* credit ledger; and when what is left of the limit of the selected model is
\* less than the number of images requested, the request ends at once with the
\* limit notice: no gateway call, no usage counter, no journal row.
C14_PrivilegedRejectedLedgerUntouched ==
  [][\A g \in 1..Len(gens), c \in ADMIN_IDS :
       (gens[g].chat_id = c /\ gens'[g] # gens[g])
       => /\ extra_balance' = extra_balance
          /\ gens'[g].debited = 0
          /\ (/\ gens[g].pc = "created"
              /\ ~gens'[g].faults
              /\ AdminRemaining(c, gens'[g].model) < gens'[g].images_per_prompt)
             => /\ gens'[g].pc = "done"
                /\ gens'[g].notes = <<"admin_limit">>
                /\ gens'[g].calls = <<>>
                /\ gens'[g].status_msg = "none"
                /\ UNCHANGED dbVars]_vars

\* The advanced tier has 1 left, 2 images were requested, the account holds
\* credits, and the request was turned down.
C14_Witness ==
  /\ Len(gens) = 1
  /\ gens[1].notes = <<"admin_limit">>
  /\ gens[1].model = "pro" /\ gens[1].images_per_prompt = 2
  /\ AdminRemaining(AdminChat, "pro") = 1
  /\ extra_balance[AdminChat] > 0

\* C15: when the balance of a standard account is less than per-image cost x
\* images per request at admission, generate_and_send ends with the rejection
\* reason: no gateway call, no "generation started" notice, and the ledger
\* balance as it was.
C15_InsufficientBalanceRejected ==
  [][\A g \in 1..Len(gens), c \in Chats \ ADMIN_IDS :
       (/\ gens[g].chat_id = c
        /\ gens[g].pc = "created" /\ gens'[g].pc # "created"
        /\ gens[g].prompt # NoPrompt \/ gens[g].photos # <<>>
        /\ ~gens'[g].faults
        /\ extra_balance[c] < gens'[g].cost_units * gens'[g].images_per_prompt)
       => /\ gens'[g].pc = "done"
          /\ gens'[g].notes = <<"insufficient">>
          /\ gens'[g].calls = <<>>
          /\ gens'[g].status_msg = "none"
          /\ extra_balance' = extra_balance]_vars

\* The account holds 2 ORB and one image of the advanced tier costs 3.
C15_Witness ==
  /\ Len(gens) = 1
  /\ gens[1].notes = <<"insufficient">>
  /\ gens[1].model = "pro" /\ gens[1].images_per_prompt = 1
  /\ extra_balance[gens[1].chat_id] = 2

\* C16: a request none of whose gateway calls produced an image is never
\* debited and leaves no usage counter and no journal row; and when its loop
\* has run through all its iterations, the "no images produced" notice is the
\* one report that follows the "generation started" notice.
C16_ZeroImagesNoDebit ==
  \A g \in 1..Len(gens) :
    LET r == gens[g] IN
    (Admitted(r) /\ ImagesProduced(r) = 0)
    => /\ r.debited = 0
       /\ \A m \in Models : model_usage[r.chat_id][m] = 0 /\ generation_log[r.chat_id][m] = 0
       /\ (/\ r.pc = "done" /\ ~r.faults
           /\ r.calls = [i \in 1..r.images_per_prompt |-> "empty"])
          => r.notes = <<"started", "no_images">>

\* Two images were asked for by an account with credits, both calls came back
\* empty, and the request is over.
C16_Witness ==
  /\ Len(gens) = 1
  /\ gens[1].pc = "done"
  /\ gens[1].calls = <<"empty", "empty">>
  /\ gens[1].notes = <<"started", "no_images">>
  /\ extra_balance[gens[1].chat_id] >= 2

\* C22: when the storage fails during the quota check of a generation (the
\* balance check of a standard account, the count of the period's journal rows
\* of an allow-listed one), the attempt ends with the "try later" notice,
\* without any gateway call and without a debit.
C22_StorageFailureTryLater ==
  [][\A g \in 1..Len(gens) :
       (/\ gens[g].pc = "created" /\ gens'[g].pc # "created"
        /\ gens'[g].err = "storage")
       => /\ gens'[g].pc = "done"
          /\ gens'[g].notes = <<"try_later">>
          /\ gens'[g].calls = <<>>
          /\ gens'[g].status_msg = "none"
          /\ UNCHANGED dbVars]_vars

\* ------------------------------------------ The arguments of a generation
ValidateChat == 1
ValidatePrompts == {NoPrompt, BlankPrompt, <<"text", 1>>}
ValidatePhotos == {<<>>, <<EmptyBytes>>, <<EmptyBytes, EmptyBytes>>, <<1>>, <<EmptyBytes, 1>>}

\* generate_and_send is started once, with any prompt and any photo list, for
\* an account that may hold credits.
NextValidate ==
  \/ gens = <<>> /\ add_extra_generations(ValidateChat, MaxBalance)
  \/ \E prompt \in ValidatePrompts, photos \in ValidatePhotos :
       gens = <<>> /\ CreateGenTask(ValidateChat, prompt, photos)
  \/ \E g \in 1..MaxGens : GenStep(g)

SpecValidate == Init /\ [][NextValidate]_vars

ResetChat == 1
ResetUploads == 2
ResetCount == 2

ResetStep(t) ==
  \/ PhotoDownloaded(t, TRUE)
  \/ UpdAcquire(t)
  \/ UpdSendStep(t, TRUE)
  \/ UpdEditStep(t, TRUE)
  \/ AlbumWake(t)

\* The user uploads photos (uncaptioned ones, and captioned parts of the album
\* "G") and sends /reset.
NextReset ==
  \/ \E group \in {""} \cup Groups :
       /\ events.uploads < ResetUploads
       /\ PhotoArrives(ResetChat, group, group # "")
  \/ events.resets < ResetCount /\ cmd_reset(ResetChat)
  \/ \E t \in TaskIds : ResetStep(t)

SpecReset == Init /\ [][NextReset]_vars

\* /reset is handled in this step.
Resets == events'.resets = events.resets + 1

\* C17: after /reset of a conversation with staged photos and pending album
\* buffers the conversation has no session left (no staged photo, no buffer)
\* and every indicator message that existed before is removed from the chat.
C17_ResetRemovesIndicators ==
  [][Resets => /\ SESSIONS'[ResetChat] = 0
               /\ chatMsgs'[ResetChat] = {}]_vars

\* --------------------------------------------------- Settings and /reset
SettingsChat == 1
AspectRatios == {"1:1", "9:16"}
Resolutions == {"1K", "2K"}

SettingsStep(t) ==
  \/ PhotoDownloaded(t, TRUE)
  \/ UpdSendStep(t, TRUE)
  \/ UpdEditStep(t, TRUE)

\* The user changes settings in the menu, sends /reset, and opens the
\* conversation again with a photo; no setting is changed after the last /reset.
NextSettings ==
  \/ /\ events.resets < ResetCount
     /\ \/ \E m \in Models : set_model(SettingsChat, m)
        \/ \E ratio \in AspectRatios : set_aspect_ratio(SettingsChat, ratio)
        \/ \E value \in Resolutions : set_resolution(SettingsChat, value)
        \/ \E value \in {1, 3} : set_images_per_prompt(SettingsChat, value)
  \/ SESSIONS[SettingsChat] = 0 /\ PhotoArrives(SettingsChat, "", FALSE)
  \/ events.resets < ResetCount /\ cmd_reset(SettingsChat)
  \/ \E t \in TaskIds : SettingsStep(t)

SpecSettings == Init /\ [][NextSettings]_vars

\* The settings a session shows.
SessionSettings(sess) ==
  [model |-> sess.model, aspect_ratio |-> sess.aspect_ratio,
   resolution |-> sess.resolution, images_per_prompt |-> sess.images_per_prompt]

\* C18: /reset can always be handled, with or without a session; it drops the
\* session, writes nothing to the database, and on a conversation without a
\* session it changes nothing; and the settings of a session are at all times
\* the stored ones, so that the session made by the next get_session has the
\* model, aspect ratio, resolution and images per request of before the reset.
C18_ResetIdempotentSettingsKept ==
  /\ [](ENABLED cmd_reset(SettingsChat))
  /\ [](\A c \in Chats :
          SESSIONS[c] # 0 => SessionSettings(sessions[SESSIONS[c]]) = user_settings[c])
  /\ [][Resets => /\ SESSIONS'[SettingsChat] = 0
                  /\ UNCHANGED dbVars
                  /\ SESSIONS[SettingsChat] = 0
                       => UNCHANGED <<now, sessVars, chatVars, gens>>]_vars

\* After two resets in a row with no setting changed since, a session exists
\* again and shows the non-default settings chosen before.
C18_Witness ==
  /\ events.resets = ResetCount
  /\ SESSIONS[SettingsChat] # 0
  /\ SessionSettings(sessions[SESSIONS[SettingsChat]]) =
       [model |-> "pro", aspect_ratio |-> "9:16", resolution |-> "2K",
        images_per_prompt |-> 3]

\* ------------------------------------ The session store and the settings
StoreResets == 2
CountInputs == {0, 1, 3, 5}

\* get_session(chat_id) called on its own.
StoreGet(c) ==
  /\ Commit(get_session(Heap, c))
  /\ UNCHANGED <<now, chatVars, events, dbVars, gens>>

\* reset_session(chat_id) called on its own.
StoreReset(c) ==
  /\ Commit(reset_session(Heap, c))
  /\ events' = [events EXCEPT !.resets = @ + 1]
  /\ UNCHANGED <<now, chatVars, dbVars, gens>>

\* Any sequence of the six calls of the store, on either conversation; the
\* resets are counted, and no setting is written after the last of them.
NextStore ==
  \E c \in Chats :
    \/ /\ events.resets < StoreResets
       /\ \/ \E m \in Models : set_model(c, m)
          \/ \E ratio \in AspectRatios : set_aspect_ratio(c, ratio)
          \/ \E value \in Resolutions : set_resolution(c, value)
          \/ \E value \in CountInputs : set_images_per_prompt(c, value)
    \/ StoreGet(c)
    \/ events.resets < StoreResets /\ StoreReset(c)

SpecStore == Init /\ [][NextStore]_vars

\* The four settings fields of the session of c.
SettingsOf(c) == SessionSettings(sessions[SESSIONS[c]])

\* C33: under any sequence of set_model, set_aspect_ratio, set_resolution,
\* set_images_per_prompt, get_session and reset_session, a session that exists
\* shows exactly the durable settings of its user; a value handed to
\* set_images_per_prompt is stored clamped to 1..4; reset_session and
\* get_session write nothing to the store, and the session get_session makes
\* after a reset has the settings that were stored before it.
C33_SessionSettingsAreDurable ==
  /\ [](\A c \in Chats : SESSIONS[c] # 0 => SettingsOf(c) = user_settings[c])
  /\ [][\A c \in Chats :
          /\ \A value \in CountInputs :
               set_images_per_prompt(c, value)
               => /\ user_settings'[c].images_per_prompt = ClampCount(value)
                  /\ user_settings'[c].images_per_prompt \in 1..4
          /\ StoreReset(c) => SESSIONS'[c] = 0 /\ user_settings' = user_settings
          /\ StoreGet(c) => /\ SESSIONS'[c] # 0
                            /\ user_settings' = user_settings
                            /\ SettingsOf(c)' = user_settings[c]]_vars

\* After the last reset a session exists again and shows the settings written
\* before it, the count being the clamped one.
C33_Witness ==
  /\ events.resets = StoreResets
  /\ \A c \in Chats :
       /\ SESSIONS[c] # 0
       /\ SettingsOf(c) = [model |-> "pro", aspect_ratio |-> "9:16", resolution |-> "2K",
                           images_per_prompt |-> 4]

\* ------------------------------- The orchestrator under the event loop
\* The event loop resumes a started generation task that can take a step.
SpecGenLive == SpecGen /\ WF_vars(\E g \in 1..MaxGens : GenRun(g))

\* C19 as stated: when the task of an admitted generation has ended, its
\* "generation started" notice has been deleted, whatever the outcome.
C19_StatusNoticeDeleted ==
  \A g \in 1..Len(gens) :
    (Admitted(gens[g]) /\ gens[g].pc \in {"done", "crashed"})
    => gens[g].status_msg = "deleted"

\* C19 amended: an admitted generation has sent exactly one "generation
\* started" notice, and whatever happens in its loop (every iteration succeeds,
\* some or none give an image, the gateway, the storage or the transport
\* raises) the task goes on to its final step, which asks once for the notice
\* to be deleted before the task ends; the notice stays only if that
\* bot.delete_message call itself fails.
C19_StatusNoticeCleanedUp ==
  /\ [](\A g \in 1..Len(gens) :
          LET r == gens[g] IN
          /\ Admitted(r) <=> CountOf(r.notes, "started") = 1
          /\ CountOf(r.notes, "started") <= 1
          /\ (Admitted(r) /\ r.pc \in {"done", "crashed"})
             => r.status_msg \in {"deleted", "delete_failed"})
  /\ (\E g \in 1..Len(gens) : gens[g].status_msg = "sent")
     ~> (\A g \in 1..Len(gens) :
           gens[g].pc = "done" /\ gens[g].status_msg \in {"deleted", "delete_failed"})

\* The transport failed inside the loop after an image was produced, and the
\* notice was deleted all the same.
C19_Witness ==
  /\ Len(gens) = 1
  /\ gens[1].pc = "done"
  /\ gens[1].err = "transport"
  /\ ImagesProduced(gens[1]) = 1
  /\ gens[1].status_msg = "deleted"

\* ------------------------------------- The gateway's retries within a call
HttpChat == 1
RetryCaps == 0..GEMINI_HTTP_MAX_RETRIES

\* An account with credits asks for one or two images; each gateway call is
\* followed through its HTTP attempts.
NextHttp ==
  \/ \E v \in 1..2 : gens = <<>> /\ set_images_per_prompt(HttpChat, v)
  \/ gens = <<>> /\ add_extra_generations(HttpChat, MaxBalance)
  \/ gens = <<>> /\ CreateGenTask(HttpChat, <<"text", 1>>, <<>>)
  \/ \E g \in 1..MaxGens : GenStart(g, TRUE, TRUE)
  \/ \E g \in 1..MaxGens, max_retries \in RetryCaps : HttpStart(g, max_retries)
  \/ \E g \in 1..MaxGens, resp \in HttpResponses : HttpAttempt(g, resp)
  \/ \E g \in 1..MaxGens, outcome \in GatewayOutcomes : HttpReturn(g, outcome, TRUE)
  \/ \E g \in 1..MaxGens : GenSendPhoto(g, TRUE)
  \/ \E g \in 1..MaxGens : GenSendDocument(g, TRUE, TRUE)
  \/ \E g \in 1..MaxGens : GenNoImages(g, TRUE)
  \/ \E g \in 1..MaxGens : GenExcept(g, TRUE)
  \/ \E g \in 1..MaxGens : GenFinally(g, TRUE)

SpecHttp == Init /\ [][NextHttp]_vars

Transient(resp) ==
  resp.kind \in {"timeout", "error"} \/ (500 <= resp.code /\ resp.code < 600)

\* C21: a call of _post_with_retry makes at most max_retries HTTP attempts; an
\* attempt is followed by another one (and by one sleep) only if it ended in a
\* timeout, a connection error or a 5xx response; a 4xx or successful response
\* ends the call with that response; and when the last allowed attempt is
\* still transient the error is raised with no further sleep or attempt.
C21_RetriesOnlyTransient ==
  /\ [](\A g \in 1..Len(gens) :
          LET h == gens[g].http
              n == Len(h.responses)
          IN
          /\ h.attempt = n /\ n <= Max2(h.max_retries, 0)
          /\ \A i \in 1..(n - 1) : Transient(h.responses[i])
          /\ Len(h.slept) = Cardinality({i \in 1..n : Transient(h.responses[i])
                                                        /\ i < h.max_retries})
          /\ (n > 0 /\ ~Transient(h.responses[n])) => h.result = "returned"
          /\ (n > 0 /\ Transient(h.responses[n]) /\ n = h.max_retries)
               => (h.result = "raised" /\ Len(h.slept) = n - 1)
          /\ h.result = "returned" => (n > 0 /\ ~Transient(h.responses[n]))
          /\ h.result = "raised" =>
               (h.max_retries < 1 \/ (n = h.max_retries /\ Transient(h.responses[n]))))
  /\ [][\A g \in 1..Len(gens) :
          (gens'[g].http.call = gens[g].http.call
           /\ gens[g].http.result \in {"raised", "returned"})
          => gens'[g].http = gens[g].http]_vars

\* The second gateway call of a request was allowed three attempts, got a
\* timeout, a 503 and a connection error, slept 1 s and 2 s in between, and
\* raised its error after the third.
C21_Witness ==
  \E g \in 1..Len(gens) :
    LET h == gens[g].http IN
    /\ h.call = 2 /\ h.max_retries = 3 /\ h.result = "raised"
    /\ h.slept = <<1, 2>>
    /\ h.responses = <<[kind |-> "timeout", code |-> 0], [kind |-> "status", code |-> 503],
                       [kind |-> "error", code |-> 0]>>

\* --------------------------------------- The chat transport failing at will
TransportChat == 1
TransportUploads == 2

TransportStep(t) ==
  \/ PhotoDownloaded(t, TRUE)
  \/ UpdAcquire(t)
  \/ \E ok \in BOOLEAN : UpdSendStep(t, ok)
  \/ \E ok \in BOOLEAN : UpdEditStep(t, ok)

\* Photos are staged and one generation of one or two images runs, while any
\* outbound call to the chat may fail; the gateway and the storage work.
NextTransport ==
  \/ events.uploads < TransportUploads /\ PhotoArrives(TransportChat, "", FALSE)
  \/ \E t \in TaskIds : TransportStep(t)
  \/ \E v \in 1..2 : gens = <<>> /\ set_images_per_prompt(TransportChat, v)
  \/ gens = <<>> /\ add_extra_generations(TransportChat, MaxBalance)
  \/ gens = <<>> /\ CreateGenTask(TransportChat, <<"text", 1>>, <<>>)
  \/ \E g \in 1..MaxGens, send_ok \in BOOLEAN : GenStart(g, TRUE, send_ok)
  \/ \E g \in 1..MaxGens, outcome \in {"image", "empty"} : GenCall(g, outcome, TRUE)
  \/ \E g \in 1..MaxGens, send_ok \in BOOLEAN : GenSendPhoto(g, send_ok)
  \/ \E g \in 1..MaxGens, send_ok \in BOOLEAN : GenSendDocument(g, send_ok, TRUE)
  \/ \E g \in 1..MaxGens, send_ok \in BOOLEAN : GenNoImages(g, send_ok)
  \/ \E g \in 1..MaxGens, send_ok \in BOOLEAN : GenExcept(g, send_ok)
  \/ \E g \in 1..MaxGens, send_ok \in BOOLEAN : GenFinally(g, send_ok)

SpecTransport == Init /\ [][NextTransport]_vars

\* C23: a failing call to the chat never aborts the operation around it: a
\* recompute that has indicators to create or to edit ends only after its last
\* edit, with one indicator per staged photo; and an admitted generation of a
\* standard account makes all its gateway calls and is debited for the images
\* they produced, whether or not their delivery worked.
C23_TransportFailureNeverAborts ==
  /\ [][\A t \in TaskIds :
          (tasks[t].pc \in {"upd_send", "upd_edit"} /\ tasks'[t] = NoTask)
          => /\ tasks[t].pc = "upd_edit"
             /\ tasks[t].i = Len(lists[tasks[t].status_ids])
             /\ Len(lists[tasks[t].status_ids]) = tasks[t].count]_vars
  /\ [](\A g \in 1..Len(gens) :
          LET r == gens[g] IN
          (r.pc = "done" /\ Admitted(r) /\ ~r.is_admin)
          => /\ Len(r.calls) = r.images_per_prompt
             /\ r.debited = ImagesProduced(r) * r.cost_units)

\* ------------------------------------------------ Removals of staged photos
\* The delete button of an indicator is pressed in this step, handled by task t.
DeleteStarts(t) == tasks[t].kind = "none" /\ tasks'[t].kind = "delete"

\* The handler of a removal goes on after its deletes and its answer.
DeleteContinues(t) == tasks[t].pc = "del_wait" /\ tasks'[t].pc # "del_wait"

\* The three lists lose their i-th entry in the step of the delete action.
DeleteRemovesAtIndex ==
  [][\A t \in TaskIds, c \in Chats :
          (/\ DeleteStarts(t) /\ tasks'[t].chat_id = c
           /\ SESSIONS[c] # 0
           /\ IndexOf(status_ids(c), tasks'[t].target) # 0)
          => LET i == IndexOf(status_ids(c), tasks'[t].target) IN
             /\ i <= Len(staged(c)) /\ i <= Len(source_ids(c))
             /\ staged(c)' = RemoveAt(staged(c), i)
             /\ source_ids(c)' = RemoveAt(source_ids(c), i)
             /\ status_ids(c)' = RemoveAt(status_ids(c), i)]_vars

\* The handler goes on to the full clear or to the recompute.
DeleteThenClearsOrRecomputes ==
  [][\A t \in TaskIds, c \in Chats :
          (DeleteContinues(t) /\ tasks[t].chat_id = c /\ SESSIONS[c] # 0)
          => IF staged(c) = <<>>
               THEN \/ tasks'[t].pc = "clr"
                    \/ /\ tasks'[t] = NoTask
                       /\ staged(c)' = <<>> /\ source_ids(c)' = <<>>
                       /\ status_ids(c)' = <<>> /\ media_groups(c)' = NoGroups
               ELSE tasks'[t].pc \in {"upd_wait", "upd_clear", "upd_extra",
                                      "upd_send", "upd_edit"}]_vars

\* C25: a delete action on the indicator at index i of the status ids removes
\* the i-th staged photo, the i-th source id and the i-th indicator id in that
\* one step, the other entries keeping their order; and when the handler goes
\* on, it clears the Remix state fully if no photo is left and runs the
\* recompute otherwise.
C25_DeleteRemovesIndexed == DeleteRemovesAtIndex /\ DeleteThenClearsOrRecomputes

\* The recompute of task t ends in this step, having run through its edits.
RecomputeEnds(t) == tasks[t].pc = "upd_edit" /\ tasks'[t] = NoTask

\* C29: when a recompute that counted C > 0 staged photos has made its last
\* edit and the conversation has C staged photos, there are C indicators, the
\* i-th of them shows the short status of photo i for i < C, and the last one
\* the full status with the count C and the remaining capacity max - C; and a
\* recompute that counted no photo ends with every indicator deleted and the
\* list empty.
C29_IndicatorTexts ==
  [][\A t \in TaskIds, c \in Chats :
       (tasks[t].chat_id = c /\ SESSIONS[c] # 0 /\ SESSIONS'[c] # 0)
       => /\ (RecomputeEnds(t) /\ Len(staged(c)') = tasks[t].count)
             => LET C == tasks[t].count
                    sl == status_ids(c)'
                IN /\ Len(sl) = C
                   /\ \A i \in 1..(C - 1) :
                        sl[i] \in chatMsgs'[c] /\ msgText'[sl[i]] = short_status_text(i)
                   /\ sl[C] \in chatMsgs'[c]
                   /\ msgText'[sl[C]] = full_status_text(C, tasks[t].max_photos - C)
          /\ (tasks[t].pc = "upd_clear" /\ tasks'[t] = NoTask)
             => /\ status_ids(c)' = <<>>
                /\ Range(lists[tasks[t].status_ids]) \cap chatMsgs'[c] = {}]_vars

\* ----------------------------------- Delete actions on a stale indicator
DesyncChat == 1
DesyncUploads == 3
DesyncDeletes == 2

DesyncStep(t) ==
  \/ PhotoDownloaded(t, TRUE)
  \/ UpdAcquire(t)
  \/ UpdSendStep(t, TRUE)
  \/ UpdEditStep(t, TRUE)
  \/ ClearStep(t, TRUE)
  \/ DelAlertStep(t, TRUE)
  \/ DelContinue(t, TRUE, TRUE)
  \/ AlbumWake(t)

\* Photos are staged, captioned parts of the album "G" are buffered, and the
\* delete button of any indicator message still in the chat is pressed, also
\* a second time while the first removal is being handled.
NextDesync ==
  \/ \E group \in {""} \cup Groups :
       events.uploads < DesyncUploads /\ PhotoArrives(DesyncChat, group, group # "")
  \/ \E m \in 1..MaxMsgs : events.deletes < DesyncDeletes /\ DeletePressed(DesyncChat, m)
  \/ \E t \in TaskIds : DesyncStep(t)

SpecDesync == Init /\ [][NextDesync]_vars

\* C26: a delete action whose indicator is not among the status ids notifies
\* the user when its alert is answered, and when its handler ends after the
\* full clear, the staged photos, the source ids, the indicator ids and the
\* album buffers of the conversation are all empty.
C26_DesyncClearsEverything ==
  [][\A t \in TaskIds, c \in Chats :
       (tasks[t].kind = "delete" /\ tasks[t].chat_id = c)
       => /\ (tasks[t].pc = "del_alert" /\ tasks'[t].pc # "del_alert")
             => notices'[c].desync = notices[c].desync + 1
          /\ (tasks[t].pc \in {"del_alert", "clr"} /\ tasks'[t] = NoTask)
             => /\ SESSIONS'[c] # 0
                /\ staged(c)' = <<>>
                /\ source_ids(c)' = <<>>
                /\ status_ids(c)' = <<>>
                /\ media_groups(c)' = NoGroups]_vars

\* Two photos were staged and a captioned album part buffered; a delete action
\* on a stale indicator was answered and its handler is over: nothing is
\* staged, and the album's resolution task still sleeps with no buffer left.
C26_Witness ==
  /\ notices[DesyncChat].desync = 1
  /\ events.uploads = DesyncUploads
  /\ \A t \in TaskIds : tasks[t].kind \notin {"delete", "photo"}
  /\ \E t \in TaskIds : tasks[t].kind = "album"
  /\ SESSIONS[DesyncChat] # 0
  /\ staged(DesyncChat) = <<>>
  /\ status_ids(DesyncChat) = <<>>
  /\ media_groups(DesyncChat) = NoGroups

\* The session fields a full clear has no business with.
KeptByClear(sess) ==
  [settings |-> SessionSettings(sess), last_generate_ts |-> sess.last_generate_ts,
   _remix_lock |-> sess._remix_lock]

\* C27: a step of the loop of _clear_remix_completely leaves the settings,
\* last_generate_ts and the lock of the session as they are; and when the full
\* clear ends, the staged photos, the source ids, the status ids and the album
\* buffers are empty and no id of the status list is a message of the chat.
C27_FullClearFrame ==
  [][\A t \in TaskIds, c \in Chats :
       (/\ tasks[t].pc = "clr" /\ tasks'[t] # tasks[t]
        /\ tasks[t].chat_id = c /\ SESSIONS[c] # 0)
       => /\ SESSIONS'[c] = SESSIONS[c]
          /\ KeptByClear(sessions'[SESSIONS[c]]) = KeptByClear(sessions[SESSIONS[c]])
          /\ tasks'[t].pc # "clr"
             => /\ staged(c)' = <<>>
                /\ source_ids(c)' = <<>>
                /\ status_ids(c)' = <<>>
                /\ media_groups(c)' = NoGroups
                /\ Range(lists[tasks[t].status_ids]) \cap chatMsgs'[c] = {}]_vars

\* ------------------------------------ Text prompts over a Remix staging
PromptChat == 1
PromptUploads == 2
PromptTexts == 2
PromptDeletes == 1
PromptTasks == 2

\* The steps of the photo, delete and text handlers in flight, the transport
\* working.
PromptStep(t) ==
  \/ PhotoDownloaded(t, TRUE)
  \/ UpdAcquire(t)
  \/ UpdExtraStep(t, TRUE)
  \/ UpdSendStep(t, TRUE)
  \/ UpdEditStep(t, TRUE)
  \/ ClearStep(t, TRUE)
  \/ DelAlertStep(t, TRUE)
  \/ DelContinue(t, TRUE, TRUE)
  \/ TextDeleteStep(t, TRUE)

\* Uncaptioned photos, presses of delete buttons and text prompts of one
\* conversation, the clock advancing between them.
NextPrompt ==
  \/ /\ events.uploads < PromptUploads
     /\ Cardinality(InFlight) < PromptTasks
     /\ PhotoArrives(PromptChat, "", FALSE)
  \/ \E m \in 1..MaxMsgs :
       /\ events.deletes < PromptDeletes
       /\ Cardinality(InFlight) < PromptTasks
       /\ DeletePressed(PromptChat, m)
  \/ /\ events.texts < PromptTexts
     /\ Cardinality(InFlight) < PromptTasks
     /\ TextArrives(PromptChat)
  \/ Tick
  \/ \E t \in TaskIds : PromptStep(t)

SpecPrompt == Init /\ [][NextPrompt]_vars

\* The staged photos of conversation c (none before its session exists).
StagedNow(c) == IF SESSIONS[c] = 0 THEN <<>> ELSE staged(c)

\* The text handler of conversation c ends in this step: one generation with
\* these photos is added, the three lists of the conversation are empty and
\* none of the former indicators is left in the chat.
TextHandlerEnds(c, photos, former) ==
  /\ Len(gens') = Len(gens) + 1
  /\ \A g \in 1..Len(gens) : gens'[g] = gens[g]
  /\ gens'[Len(gens')].chat_id = c
  /\ gens'[Len(gens')].photos = photos
  /\ SESSIONS'[c] # 0
  /\ staged(c)' = <<>>
  /\ source_ids(c)' = <<>>
  /\ status_ids(c)' = <<>>
  /\ Range(former) \cap chatMsgs'[c] = {}

\* A text prompt that passes the gate keeps the staged photos of that moment.
PromptSnapshotsStaging ==
  [][\A c \in Chats :
       (events'.texts # events.texts /\ GatePassed(c))
       => \/ \E t \in TaskIds :
               /\ tasks[t] = NoTask
               /\ tasks'[t].kind = "text"
               /\ tasks'[t].snapshot = StagedNow(c)
               /\ tasks'[t].arrival_status = status_ids(c)
               /\ gens' = gens
          \/ TextHandlerEnds(c, StagedNow(c), <<>>)]_vars

\* The handler of a text prompt, when it finishes, has dispatched one
\* generation with its snapshot and left the staging empty.
PromptConsumesStaging ==
  [][\A t \in TaskIds, c \in Chats :
       (tasks[t].kind = "text" /\ tasks[t].chat_id = c /\ tasks'[t] = NoTask)
       => TextHandlerEnds(c, tasks[t].snapshot, tasks[t].arrival_status)]_vars

\* C30: a text prompt that passes the cooldown gate dispatches exactly one
\* generation with the photos staged at that moment, in their order, and when
\* its handler finishes the staged photos, the source ids and the indicator
\* ids of the conversation are empty and every former indicator is deleted.
C30_PromptConsumesStaging == PromptSnapshotsStaging /\ PromptConsumesStaging

\* The upload handler t appends its photo in this step: the download is over
\* and the capacity check let the photo through.
AppendsPhoto(t) ==
  /\ LeavesDownload(t)
  /\ notices'[tasks[t].chat_id].max_photos = notices[tasks[t].chat_id].max_photos
  /\ notices'[tasks[t].chat_id].download_failed =
       notices[tasks[t].chat_id].download_failed

\* The upload handler t, past its append, finishes in this step.
UploadHandlerEnds(t) ==
  /\ tasks[t].kind = "photo" /\ tasks'[t] = NoTask
  /\ AppendsPhoto(t) \/ tasks[t].pc # "download"

\* C36: an uncaptioned photo that is not turned down with the capacity notice
\* is in the staged photos of its conversation once it is appended; it leaves
\* them through a text prompt only if the snapshot of that prompt holds it;
\* and if it is still staged when its handler finishes it has an indicator.
C36_NoAcceptedUploadLost ==
  [][\A c \in Chats :
       /\ \A t \in TaskIds :
            (tasks[t].chat_id = c /\ AppendsPhoto(t))
            => tasks[t].image \in Range(StagedNow(c)')
       /\ \A t \in TaskIds :
            (tasks[t].kind = "text" /\ tasks[t].chat_id = c /\ tasks'[t] = NoTask)
            => Range(StagedNow(c)) \ Range(StagedNow(c)') \subseteq Range(tasks[t].snapshot)
       /\ \A t \in TaskIds :
            (tasks[t].chat_id = c /\ UploadHandlerEnds(t)
               /\ tasks[t].image \in Range(StagedNow(c)'))
            => Len(status_ids(c)') >= IndexOf(staged(c)', tasks[t].image)]_vars

\* C37: once every handler of a conversation has finished, however a text
\* prompt or a full clear interleaved with a recompute, every indicator message
\* left in the chat is one the session knows, and a session whose staged photos
\* are empty holds no indicator id.
C37_NoIndicatorOutlivesStaging ==
  \A c \in Chats :
    (SESSIONS[c] # 0 /\ InFlight = {})
    => /\ chatMsgs[c] \subseteq Range(status_ids(c))
       /\ staged(c) = <<>> => status_ids(c) = <<>>

\* ------------------------- Captioned photos and albums over a Remix staging
TriggerChat == 1
TriggerUploads == 6
TriggerTasks == 2
TriggerStaged == 1

TriggerStep(t) ==
  \/ PhotoDownloaded(t, TRUE)
  \/ UpdSendStep(t, TRUE)
  \/ UpdEditStep(t, TRUE)
  \/ ClearStep(t, TRUE)
  \/ AlbumWake(t)

\* Uncaptioned single photos (TriggerStaged of them at most), captioned single
\* photos and captioned parts of the album "G" arrive; a resolution moves the
\* clock to its wake-up time.
NextTrigger ==
  \/ \E group \in {""} \cup Groups, captioned \in BOOLEAN :
       /\ events.uploads < TriggerUploads
       /\ Cardinality(InFlight) < TriggerTasks
       /\ group # "" => captioned
       /\ ~captioned => events.uploads - events.captioned < TriggerStaged
       /\ PhotoArrives(TriggerChat, group, captioned)
  \/ \E t \in TaskIds : TriggerStep(t)

SpecTrigger == Init /\ [][NextTrigger]_vars

\* The handler t of a captioned single photo reaches the gate in this step.
CaptionedSingleAtGate(t) ==
  LeavesDownload(t) /\ tasks[t].caption # NoPrompt /\ tasks[t].group = ""

\* Task t is in the full clear that precedes its dispatch.
ClearsForDispatch(t) == tasks[t].pc = "clr" /\ tasks[t].ret = "dispatch"

IsoUploads == 2
IsoOthers == 1
IsoTasks == 2

\* The removals, text prompts and resets taken so far.
OtherEvents == events.deletes + events.texts + events.resets

\* A step of a handler coroutine of conversation c.
IsoTaskStep(c, t) ==
  /\ tasks[t].chat_id = c
  /\ \/ PhotoDownloaded(t, TRUE)
     \/ UpdAcquire(t)
     \/ UpdSendStep(t, TRUE)
     \/ UpdEditStep(t, TRUE)
     \/ ClearStep(t, TRUE)
     \/ DelContinue(t, TRUE, TRUE)
     \/ TextDeleteStep(t, TRUE)
     \/ AlbumWake(t)

\* A step of a generation task of conversation c.
IsoGenStep(c, g) ==
  /\ g \in 1..Len(gens)
  /\ gens[g].chat_id = c
  /\ GenStart(g, TRUE, TRUE)

\* Everything the bot does for conversation c: an inbound event of c is taken
\* (upload, captioned album part, removal, text prompt, model switch, /reset)
\* or one of its handlers or generations is resumed.
StepOf(c) ==
  \/ \E group \in {""} \cup Groups :
       /\ events.uploads < IsoUploads
       /\ Cardinality(InFlight) < IsoTasks
       /\ PhotoArrives(c, group, group # "")
  \/ \E m \in 1..MaxMsgs :
       /\ OtherEvents < IsoOthers
       /\ Cardinality(InFlight) < IsoTasks
       /\ SESSIONS[c] # 0
       /\ m \in Range(status_ids(c))
       /\ DeletePressed(c, m)
  \/ /\ OtherEvents < IsoOthers
     /\ Cardinality(InFlight) < IsoTasks
     /\ TextArrives(c)
  \/ user_settings[c].model = DEFAULT_MODEL /\ set_model(c, "pro")
  \/ OtherEvents < IsoOthers /\ cmd_reset(c)
  \/ \E t \in TaskIds : IsoTaskStep(c, t)
  \/ \E g \in 1..MaxGens : IsoGenStep(c, g)

NextIsolate == \E c \in Chats : StepOf(c)

SpecIsolate == Init /\ [][NextIsolate]_vars

\* The session of conversation c with the objects it refers to: its fields,
\* the contents of its lists and of its album buffers, the state of its lock.
SessionOf(c) ==
  IF SESSIONS[c] = 0 THEN <<>>
  ELSE LET sess == sessions[SESSIONS[c]] IN
       <<[settings |-> SessionSettings(sess),
          last_generate_ts |-> sess.last_generate_ts,
          photos |-> lists[sess.photos],
          photo_message_ids |-> lists[sess.photo_message_ids],
          photo_status_message_ids |-> lists[sess.photo_status_message_ids],
          media_groups |-> dicts[sess.media_groups],
          _remix_lock |-> IF sess._remix_lock = 0 THEN <<>>
                          ELSE <<locks[sess._remix_lock]>>]>>

\* The tasks that hold or wait for lock k.
LockUsers(k) == ({locks[k].locked} \cup Range(locks[k].waiters)) \ {0}

\* C32: a step taken for conversation A (an upload, a removal, a text prompt,
\* an album resolution, a settings change, /reset, a generation step) leaves
\* the session of every other conversation B as it is, lists, album buffers
\* and lock included; and a lock is only ever held or waited for by tasks of
\* one conversation, so that no handler of B waits for a lock held by A.
C32_ConversationsIsolated ==
  /\ [][\A A \in Chats : StepOf(A) =>
          \A B \in Chats \ {A} : SessionOf(B)' = SessionOf(B)]_vars
  /\ [](\A k \in LockIds : \A t, u \in LockUsers(k) :
          tasks[t].chat_id = tasks[u].chat_id)

\* Both conversations have a staged photo and each has a recompute holding
\* its own lock at the same time.
C32_Witness ==
  /\ \A c \in Chats : SESSIONS[c] # 0 /\ Len(staged(c)) = 1
  /\ \E t, u \in TaskIds :
       /\ tasks[t].chat_id = 1 /\ tasks[u].chat_id = 2
       /\ tasks[t].lock # 0 /\ locks[tasks[t].lock].locked = t
       /\ tasks[u].lock # 0 /\ locks[tasks[u].lock].locked = u

\* ------------------------------------------- The lock under the event loop
LockChat == 2
LockUploads == 2
LockDeletes == 1
LockTexts == 1
LockTasks == 3

\* The event loop resumes handler t: the call it awaits returns or raises.
LockStep(t) ==
  \/ UpdAcquire(t)
  \/ \E ok \in BOOLEAN :
       \/ PhotoDownloaded(t, ok)
       \/ UpdClearStep(t, ok)
       \/ UpdExtraStep(t, ok)
       \/ UpdSendStep(t, ok)
       \/ UpdEditStep(t, ok)
       \/ ClearStep(t, ok)
       \/ DelAlertStep(t, ok)
       \/ TextDeleteStep(t, ok)
       \/ \E answer_ok \in BOOLEAN : DelContinue(t, ok, answer_ok)

\* Uploads, presses of delete buttons and a text prompt of one conversation,
\* every transport call succeeding or failing, and the generation the prompt
\* dispatches up to its gateway call.
NextLock ==
  \/ /\ events.uploads < LockUploads
     /\ Cardinality(InFlight) < LockTasks
     /\ PhotoArrives(LockChat, "", FALSE)
  \/ \E m \in 1..MaxMsgs :
       /\ events.deletes < LockDeletes
       /\ Cardinality(InFlight) < LockTasks
       /\ DeletePressed(LockChat, m)
  \/ /\ events.texts < LockTexts
     /\ Cardinality(InFlight) < LockTasks
     /\ TextArrives(LockChat)
  \/ \E t \in TaskIds : LockStep(t)
  \/ \E g \in 1..MaxGens : GenStart(g, TRUE, TRUE)

\* Handler t can be resumed: the call it awaits has an outcome, or it is first
\* in line for a lock that is free.
Ready(t) ==
  \/ tasks[t].pc \in {"download", "upd_clear", "upd_extra", "upd_send", "upd_edit", "clr",
                      "del_alert", "del_wait", "txt_del"}
  \/ /\ tasks[t].pc = "upd_wait"
     /\ locks[tasks[t].lock].locked = 0
     /\ locks[tasks[t].lock].waiters # <<>>
     /\ Head(locks[tasks[t].lock].waiters) = t

\* asyncio runs every coroutine that is ready (weak fairness of the steps of
\* each handler, Ready(t) being where LockStep(t) is enabled).
SpecLock ==
  /\ Init /\ [][NextLock]_vars
  /\ \A t \in TaskIds : []<>(~Ready(t)) \/ []<><<LockStep(t)>>_vars

\* The positions of a handler inside the `async with lock` block.
RecomputePcs == {"upd_clear", "upd_extra", "upd_send", "upd_edit"}

\* Handler t holds a lock.
IsHolder(t) == \E k \in LockIds : locks[k].locked = t

\* C34: the lock of a conversation is held only by a handler that is inside
\* an indicator recompute (never by a task that is at a generation gateway
\* call, which no handler and no holder is), a waiter is queued only behind a
\* lock; every holder releases the lock, also when a transport call inside
\* the block fails, every waiting recompute gets the lock, and every upload
\* or removal handler ends.
C34_LockReleasedHandlersEnd ==
  /\ [](\A k \in LockIds :
          /\ locks[k].locked # 0
               => /\ tasks[locks[k].locked].pc \in RecomputePcs
                  /\ tasks[locks[k].locked].lock = k
          /\ \A i \in 1..Len(locks[k].waiters) :
               /\ tasks[locks[k].waiters[i]].pc = "upd_wait"
               /\ tasks[locks[k].waiters[i]].lock = k)
  /\ \A t \in TaskIds :
       /\ IsHolder(t) ~> ~IsHolder(t)
       /\ (tasks[t].pc = "upd_wait") ~> (tasks[t].pc # "upd_wait")
       /\ (tasks[t].kind \in {"photo", "delete"}) ~> (tasks[t].kind = "none")

\* A recompute holds the lock with another handler queued behind it while a
\* generation of the conversation is at its gateway call.
C34_Witness ==
  /\ \E k \in LockIds :
       /\ locks[k].locked # 0
       /\ locks[k].waiters # <<>>
  /\ \E g \in 1..Len(gens) : gens[g].pc = "call"

\* ------------------------------------------ Triggers the gate turns away
RejectChat == 1
RejectUploads == 3
RejectTexts == 1
RejectTasks == 2
RejectStaged == 1

RejectStep(t) ==
  \/ PhotoDownloaded(t, TRUE)
  \/ UpdSendStep(t, TRUE)
  \/ UpdEditStep(t, TRUE)
  \/ ClearStep(t, TRUE)
  \/ TextDeleteStep(t, TRUE)
  \/ AlbumWake(t)

\* Uncaptioned photos are staged while text prompts, captioned single photos
\* and captioned album parts arrive, within one cooldown interval or later.
NextReject ==
  \/ \E group \in {""} \cup Groups, captioned \in BOOLEAN :
       /\ events.uploads < RejectUploads
       /\ Cardinality(InFlight) < RejectTasks
       /\ group # "" => captioned
       /\ ~captioned => events.uploads - events.captioned < RejectStaged
       /\ PhotoArrives(RejectChat, group, captioned)
  \/ /\ events.texts < RejectTexts
     /\ Cardinality(InFlight) < RejectTasks
     /\ TextArrives(RejectChat)
  \/ Tick
  \/ \E t \in TaskIds : RejectStep(t)

SpecReject == Init /\ [][NextReject]_vars

\* The staged photos, the source ids and the indicator ids of conversation c.
StagingOf(c) ==
  IF SESSIONS[c] = 0 THEN <<<<>>, <<>>, <<>>>>
  ELSE LET sess == sessions[SESSIONS[c]] IN
       <<lists[sess.photos], lists[sess.photo_message_ids],
         lists[sess.photo_status_message_ids]>>

\* The album buffers of conversation c.
BuffersOf(c) ==
  IF SESSIONS[c] = 0 THEN NoGroups ELSE dicts[sessions[SESSIONS[c]].media_groups]

\* The album resolutions that end in this step.
AlbumsEnding == {t \in TaskIds : tasks[t].kind = "album" /\ tasks'[t] = NoTask}

\* C35: a step in which the gate turns a trigger away (a text prompt, a
\* captioned single photo, an album resolution) leaves the staged photos,
\* the source ids, the indicator ids, the indicator messages and their texts
\* and last_generate_ts as they were and adds no generation; it sends the wait
\* notice, ends the handler, and for an album removes that album's buffer and
\* no other.
C35_RejectedTriggerChangesNothing ==
  [][\A c \in Chats :
       GateRejected(c) =>
         /\ StagingOf(c)' = StagingOf(c)
         /\ LastTs(c)' = LastTs(c)
         /\ gens' = gens
         /\ chatMsgs' = chatMsgs /\ msgText' = msgText
         /\ notices' = [notices EXCEPT ![c].cooldown = @ + 1,
                                       ![c].remain = notices'[c].remain]
         /\ \A t \in TaskIds : tasks'[t] = tasks[t] \/ tasks'[t] = NoTask
         /\ BuffersOf(c)' =
              [x \in DOMAIN BuffersOf(c) \ {tasks[t].group : t \in AlbumsEnding}
                 |-> BuffersOf(c)[x]]]_vars

\* Two triggers have been turned away while a photo is staged with its
\* indicator, after one trigger went through.
C35_Witness ==
  /\ notices[RejectChat].cooldown >= 2
  /\ Len(gens) = 1
  /\ events.texts >= 1 /\ events.captioned >= 1
  /\ SESSIONS[RejectChat] # 0
  /\ Len(staged(RejectChat)) >= 1
  /\ Len(status_ids(RejectChat)) = Len(staged(RejectChat))
  /\ InFlight = {}

\* ------------------------------- Generations in flight and later events
FlightChat == 1
FlightUploads == 2
FlightTexts == 2
FlightDeletes == 1
FlightResets == 1
FlightTasks == 2

FlightStep(t) ==
  \/ PhotoDownloaded(t, TRUE)
  \/ UpdAcquire(t)
  \/ UpdSendStep(t, TRUE)
  \/ UpdEditStep(t, TRUE)
  \/ ClearStep(t, TRUE)
  \/ DelAlertStep(t, TRUE)
  \/ DelContinue(t, TRUE, TRUE)
  \/ TextDeleteStep(t, TRUE)
  \/ AlbumWake(t)

\* A generation task starts and gets the image of its first gateway call.
FlightGenStep(g) ==
  \/ GenStart(g, TRUE, TRUE)
  \/ GenCall(g, "image", TRUE)

\* Photos (staged ones, and captioned parts of the album "G"), removals, text
\* prompts and /reset keep coming while the generations they started run; at
\* most FlightTasks handlers are in flight when a new event is taken.
NextFlight ==
  \/ \E group \in {""} \cup Groups :
       /\ events.uploads < FlightUploads
       /\ Cardinality(InFlight) < FlightTasks
       /\ PhotoArrives(FlightChat, group, group # "")
  \/ \E m \in 1..MaxMsgs :
       /\ events.deletes < FlightDeletes
       /\ Cardinality(InFlight) < FlightTasks
       /\ DeletePressed(FlightChat, m)
  \/ /\ events.texts < FlightTexts
     /\ Cardinality(InFlight) < FlightTasks
     /\ TextArrives(FlightChat)
  \/ events.resets < FlightResets /\ cmd_reset(FlightChat)
  \/ gens = <<>> /\ add_extra_generations(FlightChat, MaxBalance)
  \/ \E t \in TaskIds : FlightStep(t)
  \/ \E g \in 1..MaxGens : FlightGenStep(g)

SpecFlight == Init /\ [][NextFlight]_vars

\* The step handles an inbound event or resumes a handler of the conversation.
HandlerStep == events' # events \/ tasks' # tasks

\* C24: a dispatched generation keeps its prompt and its photos and is never
\* cancelled: no task leaves the list of generations, a step of an upload, a
\* removal, a text prompt, a full clear or /reset leaves every dispatched
\* generation as it is, and the album buffer whose photo list went to a
\* generation is in no media_groups dict any more, so that no later part can
\* be appended to that list.
C24_DispatchedGenerationFixed ==
  /\ [][/\ Len(gens') >= Len(gens)
        /\ \A g \in 1..Len(gens) :
             /\ gens'[g].prompt = gens[g].prompt
             /\ gens'[g].photos = gens[g].photos
             /\ gens'[g].chat_id = gens[g].chat_id
             /\ HandlerStep => gens'[g] = gens[g]]_vars
  /\ [](\A g \in 1..Len(gens), d \in DictIds, x \in Groups :
          (gens[g].media_group_id # "" /\ x \in DOMAIN dicts[d])
          => /\ dicts[d][x].photos # <<>>
             /\ dicts[d][x].photos[1] # gens[g].photos[1])

\* A generation started by a text prompt with one staged photo is waiting for
\* the gateway; since then the conversation was reset and a new photo staged.
C24_Witness ==
  /\ Len(gens) >= 1
  /\ gens[1].pc = "call"
  /\ gens[1].photos = <<1>>
  /\ events.resets = 1
  /\ SESSIONS[FlightChat] # 0
  /\ staged(FlightChat) = <<2>>

\* --------------------------------------- Choosing the images per request
CountChat == 1
MaxCountAlerts == 1

\* The account picks a number of images in the settings menu (callback values
\* 0..5), is credited, and starts one generation.
NextCount ==
  \/ \E value \in 0..5 :
       /\ value \notin 1..4 => notices[CountChat].count_alert < MaxCountAlerts
       /\ cb_set_images_count(CountChat, value)
  \/ add_extra_generations(CountChat, MaxBalance)
  \/ gens = <<>> /\ CreateGenTask(CountChat, <<"text", 1>>, <<>>)
  \/ \E g \in 1..MaxGens : GenStep(g)

SpecCount == Init /\ [][NextCount]_vars

\* C20: the images per request of a session is always in 1..4 and a request
\* makes between 1 and 4 gateway calls; and a request to set the value is never
\* rejected: a value outside 1..4 is clamped to the nearest bound and stored.
C20_CountClampedNeverRejected ==
  /\ [](\A c \in Chats :
          SESSIONS[c] # 0 => /\ sessions[SESSIONS[c]].images_per_prompt \in 1..4
                             /\ user_settings[c].images_per_prompt \in 1..4)
  /\ [](\A g \in 1..Len(gens) :
          /\ Len(gens[g].calls) <= 4
          /\ Admitted(gens[g]) => gens[g].images_per_prompt \in 1..4)
  /\ [][\A c \in Chats : notices'[c].count_alert = notices[c].count_alert]_vars

\* The generation g of a text prompt with photos ends at the quota check.
QuotaRejects(g) ==
  /\ gens[g].pc = "created" /\ gens'[g].pc = "done"
  /\ ~Admitted(gens'[g])
  /\ gens[g].prompt # NoPrompt /\ gens[g].prompt[1] = "text"
  /\ gens[g].photos # <<>>

\* C40: when the generation of a text prompt is turned down by the quota
\* check, the photos the prompt took are still the staged photos of the
\* conversation, each with its indicator.
C40_RejectedPromptKeepsStaging ==
  [][\A g \in 1..Len(gens) :
       QuotaRejects(g)
       => LET c == gens[g].chat_id IN
          /\ Range(gens[g].photos) \subseteq Range(StagedNow(c)')
          /\ SESSIONS'[c] # 0
          /\ Len(status_ids(c)') = Len(staged(c)')]_vars

\* ---------------------------------- Generation requests running side by side
ConcGens == 2      \* generation tasks alive at the same time
ConcCount == 2     \* largest images-per-request value chosen

\* A step of generation g in which the storage, the gateway and the transport
\* all work.
ConcStep(g) ==
  \/ GenStart(g, TRUE, TRUE)
  \/ GenCall(g, "image", TRUE)
  \/ GenSendPhoto(g, TRUE)
  \/ GenSendDocument(g, TRUE, TRUE)
  \/ GenFinally(g, TRUE)

\* A standard and an allow-listed account top up, choose the number of images
\* and send prompts whose generations run while earlier ones are not over.
NextConcurrent ==
  \/ \E c \in Chats, v \in 1..ConcCount : gens = <<>> /\ set_images_per_prompt(c, v)
  \/ \E c \in Chats \ ADMIN_IDS, a \in 1..MaxBalance :
       gens = <<>> /\ add_extra_generations(c, a)
  \/ \E c \in Chats : Len(gens) < ConcGens /\ CreateGenTask(c, <<"text", 1>>, <<>>)
  \/ \E g \in 1..MaxGens : ConcStep(g)

SpecConcurrent == InitAdmin /\ [][NextConcurrent]_vars

RECURSIVE TotalDebited(_)
\* What generations 1..n took from the ledger.
TotalDebited(n) == IF n = 0 THEN 0 ELSE gens[n].debited + TotalDebited(n - 1)

RECURSIVE TotalDue(_)
\* Per-image cost times images delivered, over the standard generations 1..n.
TotalDue(n) ==
  IF n = 0 THEN 0
  ELSE (IF gens[n].is_admin THEN 0 ELSE gens[n].delivered * gens[n].cost_units)
       + TotalDue(n - 1)

\* C38: with several generations of a standard account in flight, the balance
\* is never negative, and once they are all over the ledger was debited the
\* per-image cost for every image delivered.
C38_ConcurrentDebitsMatch ==
  /\ \A c \in Chats : extra_balance[c] >= 0
  /\ (\A g \in 1..Len(gens) : gens[g].pc = "done")
     => TotalDebited(Len(gens)) = TotalDue(Len(gens))

\* C39: whatever the interleaving of the generations of an allow-listed
\* account, the journal of the period holds at most the limit of each model.
C39_PrivilegedWithinLimit ==
  \A c \in ADMIN_IDS, m \in Models : generation_log[c][m] <= ADMIN_PERIOD_LIMITS[m]

====
